---- MODULE Spec2Model ----
(***************************************************************************)
(* A model of the Turkish morphology compiler: the lexicon validator and   *)
(* parser, the morphotactics reader, validator and parser, and the         *)
(* model_compile tool that merges their rewrite rules and emits the        *)
(* complex symbols table and the text FST.                                 *)
(*                                                                         *)
(* Strings are tuples of characters.  A character is a TLA+ string: the    *)
(* character itself for printable ASCII and the tab ("\t"), and an ASCII   *)
(* name for the others:                                                    *)
(*   "a^" "i^" "u^"  a, i, u with circumflex   (U+00E2, U+00EE, U+00FB)    *)
(*   "A^" "I^" "U^"  their capitals            (U+00C2, U+00CE, U+00DB)    *)
(*   "I."            capital I with dot above  (U+0130)                    *)
(*   "i~"            small dotless i           (U+0131)                    *)
(*   "^."            combining dot above       (U+0307)                    *)
(*   "grave"         grave accent              (U+0060)                    *)
(***************************************************************************)
EXTENDS Naturals, Sequences, FiniteSets, TLC

\* ------------------------------------------------------------------------
\* Characters and the str built-ins the sources use
\* ------------------------------------------------------------------------

Range(s) == {s[i] : i \in DOMAIN s}

\* The printable ASCII characters in code point order: the character at
\* position i has code point 31 + i.
AsciiPrintable ==
  <<" ", "!", "\"", "#", "$", "%", "&", "'", "(", ")", "*", "+", ",", "-",
    ".", "/", "0", "1", "2", "3", "4", "5", "6", "7", "8", "9", ":", ";",
    "<", "=", ">", "?", "@", "A", "B", "C", "D", "E", "F", "G", "H", "I",
    "J", "K", "L", "M", "N", "O", "P", "Q", "R", "S", "T", "U", "V", "W",
    "X", "Y", "Z", "[", "\\", "]", "^", "_", "grave", "a", "b", "c", "d", "e",
    "f", "g", "h", "i", "j", "k", "l", "m", "n", "o", "p", "q", "r", "s",
    "t", "u", "v", "w", "x", "y", "z", "{", "|", "}", "~">>

\* The other characters of the model's alphabet, each with its code point.
OtherChars ==
  <<<<"\t", 9>>, <<"A^", 194>>, <<"I^", 206>>, <<"U^", 219>>, <<"a^", 226>>,
    <<"i^", 238>>, <<"u^", 251>>, <<"I.", 304>>, <<"i~", 305>>,
    <<"^.", 775>>>>

\* The code point of each character of the two tables.
CodePoints(ascii, others) ==
  [c \in Range(ascii) \cup {others[i][1] : i \in DOMAIN others} |->
     IF c \in Range(ascii)
       THEN 31 + (CHOOSE i \in DOMAIN ascii : ascii[i] = c)
       ELSE others[CHOOSE i \in DOMAIN others : others[i][1] = c][2]]

OrdTable == CodePoints(AsciiPrintable, OtherChars)

Chars == DOMAIN OrdTable

\* ord(c)
Ord(c) == OrdTable[c]

\* A range of ASCII characters, as [A-Z] in a pattern.
CharsBetween(lo, hi) ==
  Range(SubSeq(AsciiPrintable, Ord(lo) - 31, Ord(hi) - 31))

AZ == CharsBetween("A", "Z")          \* [A-Z]
AsciiLower == CharsBetween("a", "z")
Digit == CharsBetween("0", "9")       \* \d

\* str.isalpha() on one character, [^\W\d_] in a pattern: the letters of
\* the alphabet.
Letter == AZ \cup AsciiLower \cup
           {"A^", "I^", "U^", "a^", "i^", "u^", "I.", "i~"}

\* str.isspace() on one character
Whitespace == {" ", "\t"}

\* str.lower() on one character.  The capital I with dot above lowercases to
\* two code points, i followed by the combining dot above.
LowerOfChar(c) ==
  CASE c \in AZ -> <<AsciiPrintable[Ord(c) + 32 - 31]>>
    [] c = "A^" -> <<"a^">>
    [] c = "I^" -> <<"i^">>
    [] c = "U^" -> <<"u^">>
    [] c = "I." -> <<"i", "^.">>
    [] OTHER -> <<c>>

\* str.upper() on one character.  The dotless i uppercases to the plain I.
UpperOfChar(c) ==
  CASE c \in AsciiLower -> <<AsciiPrintable[Ord(c) - 32 - 31]>>
    [] c = "a^" -> <<"A^">>
    [] c = "i^" -> <<"I^">>
    [] c = "u^" -> <<"U^">>
    [] c = "i~" -> <<"I">>
    [] OTHER -> <<c>>

RECURSIVE PyLower(_)
PyLower(s) == IF s = <<>> THEN <<>> ELSE LowerOfChar(Head(s)) \o PyLower(Tail(s))

RECURSIVE PyUpper(_)
PyUpper(s) == IF s = <<>> THEN <<>> ELSE UpperOfChar(Head(s)) \o PyUpper(Tail(s))

\* str.capitalize(): the first character uppercased, the rest lowercased.
PyCapitalize(s) ==
  IF s = <<>> THEN <<>> ELSE UpperOfChar(Head(s)) \o PyLower(Tail(s))

\* str.replace(old, new) for one-character old and new
PyReplace(s, old, new) == [i \in DOMAIN s |-> IF s[i] = old THEN new ELSE s[i]]

\* str.startswith(prefix) and str.endswith(suffix)
PyStartsWith(s, prefix) ==
  Len(prefix) <= Len(s) /\ SubSeq(s, 1, Len(prefix)) = prefix

PyEndsWith(s, suffix) ==
  Len(suffix) <= Len(s) /\ SubSeq(s, Len(s) - Len(suffix) + 1, Len(s)) = suffix

\* str.isspace(): non-empty and only whitespace
PyIsSpace(s) == s # <<>> /\ \A i \in DOMAIN s : s[i] \in Whitespace

\* str.lstrip().rstrip()
RECURSIVE PyLStrip(_)
PyLStrip(s) ==
  IF s # <<>> /\ Head(s) \in Whitespace THEN PyLStrip(Tail(s)) ELSE s

RECURSIVE PyRStrip(_)
PyRStrip(s) ==
  IF s # <<>> /\ s[Len(s)] \in Whitespace
    THEN PyRStrip(SubSeq(s, 1, Len(s) - 1)) ELSE s

\* str.split(sep) for a one-character separator: the pieces between the
\* separators, empty pieces included.
RECURSIVE PySplitOn(_, _)
PySplitOn(s, sep) ==
  IF \A i \in DOMAIN s : s[i] # sep THEN <<s>>
  ELSE LET k == CHOOSE i \in DOMAIN s :
                  s[i] = sep /\ \A j \in 1..(i - 1) : s[j] # sep
       IN <<SubSeq(s, 1, k - 1)>> \o PySplitOn(SubSeq(s, k + 1, Len(s)), sep)

\* str.split(): the maximal runs of non-whitespace characters.
RECURSIVE PySplit(_)
PySplit(s) ==
  LET t == PyLStrip(s) IN
  IF t = <<>> THEN <<>>
  ELSE LET n == IF \A i \in DOMAIN t : t[i] \notin Whitespace THEN Len(t)
                ELSE (CHOOSE i \in DOMAIN t :
                        t[i] \in Whitespace
                        /\ \A j \in 1..(i - 1) : t[j] \notin Whitespace) - 1
       IN <<SubSeq(t, 1, n)>> \o PySplit(SubSeq(t, n + 1, Len(t)))

\* a < b for str: lexicographic by code point, a proper prefix first.
RECURSIVE PyLess(_, _)
PyLess(a, b) ==
  IF b = <<>> THEN FALSE
  ELSE IF a = <<>> THEN TRUE
  ELSE IF Head(a) # Head(b) THEN Ord(Head(a)) < Ord(Head(b))
  ELSE PyLess(Tail(a), Tail(b))

\* sorted(S) for a set of str
RECURSIVE PySorted(_)
PySorted(S) ==
  IF S = {} THEN <<>>
  ELSE LET m == CHOOSE x \in S : \A y \in S \ {x} : PyLess(x, y)
       IN <<m>> \o PySorted(S \ {m})

\* The elements of a sequence with the later duplicates removed.
Distinct(s) ==
  LET first(i) == \A j \in 1..(i - 1) : s[j] # s[i]
      kept == SelectSeq([i \in DOMAIN s |-> i], first)
  IN [k \in DOMAIN kept |-> s[kept[k]]]

RECURSIVE Flatten(_)
Flatten(ss) == IF ss = <<>> THEN <<>> ELSE Head(ss) \o Flatten(Tail(ss))

\* ------------------------------------------------------------------------
\* Regular expressions (module re)
\*
\* A pattern is a record: a character class, a literal, a concatenation, an
\* alternation, or a repetition (lazy or greedy).  Ends(re, s, i) lists the
\* positions at which a match of re that starts at position i of s can end,
\* in the order the backtracking matcher tries them, so that its head is the
\* match re.match takes and its range decides re.fullmatch.
\* ------------------------------------------------------------------------

Cls(set) == [op |-> "cls", set |-> set]
Lit(str) == [op |-> "lit", str |-> str]
Cat(rs) == [op |-> "cat", rs |-> rs]
Alt(rs) == [op |-> "alt", rs |-> rs]
PlusLazy(r) == [op |-> "plus", r |-> r, greedy |-> FALSE]
PlusGreedy(r) == [op |-> "plus", r |-> r, greedy |-> TRUE]
StarLazy(r) == [op |-> "star", r |-> r, greedy |-> FALSE]
Opt(r) == [op |-> "opt", r |-> r]

RECURSIVE Ends(_, _, _)
RECURSIVE EndsFrom(_, _, _)
RECURSIVE EndsOfCat(_, _, _)
RECURSIVE EndsOfAlt(_, _, _)
RECURSIVE EndsOfPlus(_, _, _)

\* The ends of re from each start position in turn.
EndsFrom(re, s, starts) ==
  Distinct(Flatten([k \in DOMAIN starts |-> Ends(re, s, starts[k])]))

EndsOfCat(rs, s, starts) ==
  IF rs = <<>> THEN starts
  ELSE EndsOfCat(Tail(rs), s, EndsFrom(Head(rs), s, starts))

EndsOfAlt(rs, s, i) ==
  IF rs = <<>> THEN <<>>
  ELSE Distinct(Ends(Head(rs), s, i) \o EndsOfAlt(Tail(rs), s, i))

\* One or more repetitions: a lazy one tries to stop after each repetition
\* before it tries another, a greedy one the other way round.
EndsOfPlus(re, s, starts) ==
  IF starts = <<>> THEN <<>>
  ELSE LET e == Head(starts)
           more == EndsOfPlus(re, s, Ends(re.r, s, e))
       IN Distinct((IF re.greedy THEN more \o <<e>> ELSE <<e>> \o more)
                   \o EndsOfPlus(re, s, Tail(starts)))

Ends(re, s, i) ==
  CASE re.op = "cls" ->
         IF i <= Len(s) /\ s[i] \in re.set THEN <<i + 1>> ELSE <<>>
    [] re.op = "lit" ->
         IF i + Len(re.str) - 1 <= Len(s)
            /\ SubSeq(s, i, i + Len(re.str) - 1) = re.str
           THEN <<i + Len(re.str)>> ELSE <<>>
    [] re.op = "cat" -> EndsOfCat(re.rs, s, <<i>>)
    [] re.op = "alt" -> EndsOfAlt(re.rs, s, i)
    [] re.op = "plus" /\ re.r.op = "cls" ->
         \* the run of class characters from i, its ends from the shortest
         \* (lazy) or from the longest (greedy)
         LET run == CHOOSE n \in 0..(Len(s) + 1 - i) :
                      /\ \A k \in i..(i + n - 1) : s[k] \in re.r.set
                      /\ i + n > Len(s) \/ s[i + n] \notin re.r.set
         IN [k \in 1..run |-> IF re.greedy THEN i + run + 1 - k ELSE i + k]
    [] re.op = "plus" /\ re.r.op # "cls" ->
         EndsOfPlus(re, s, Ends(re.r, s, i))
    [] re.op = "star" ->
         LET more == EndsOfPlus(re, s, Ends(re.r, s, i))
         IN IF re.greedy THEN Distinct(more \o <<i>>) ELSE Distinct(<<i>> \o more)
    [] re.op = "opt" -> Distinct(Ends(re.r, s, i) \o <<i>>)

\* re.fullmatch(s) is not None
FullMatch(re, s) == (Len(s) + 1) \in Range(Ends(re, s, 1))

\* re.findall(s) for a pattern without groups: the leftmost matches, scanned
\* left to right, each as the matcher takes it.  No pattern of the sources
\* matches the empty string.
RECURSIVE FindAllFrom(_, _, _)
FindAllFrom(re, s, i) ==
  IF i > Len(s) THEN <<>>
  ELSE LET ends == Ends(re, s, i) IN
       IF ends = <<>> \/ Head(ends) = i THEN FindAllFrom(re, s, i + 1)
       ELSE <<SubSeq(s, i, Head(ends) - 1)>> \o FindAllFrom(re, s, Head(ends))

FindAll(re, s) == FindAllFrom(re, s, 1)

\* The other character classes of the patterns.
Az == CharsBetween("A", "z")          \* [A-z]: the letters and [ \ ] ^ _ grave
Az09 == Az \cup Digit                 \* [A-z0-9]

\* ------------------------------------------------------------------------
\* lexicon/tags.py: the tag catalog
\* ------------------------------------------------------------------------

\* An item of the tag set.  output_as is empty when the item has none.
\* required_features is an ordered dictionary, here the tuple of its
\* (category, values) items; optional_features is a dictionary, here the
\* set of its items.
TagSetItem(tag, output_as, formatting, is_fst_state, cross_classify_as, required_features, optional_features) ==
  [tag |-> tag, output_as |-> output_as, formatting |-> formatting,
   is_fst_state |-> is_fst_state, cross_classify_as |-> cross_classify_as,
   required_features |-> required_features,
   optional_features |-> optional_features]

_TAG_SET ==
  <<
    TagSetItem(<<"J", "J">>,
      <<>>, "lower", TRUE,
      <<<<"N", "N">>, <<"N", "O", "M", "P">>, <<"P", "R", "I">>, <<"R", "B">>>>,
      <<>>,
      {<<<<"E", "m", "p", "h", "a", "s", "i", "s">>, {<<"T", "r", "u", "e">>}>>}),
    TagSetItem(<<"J", "J", "N">>,
      <<>>, "lower", FALSE,
      <<<<"J", "J">>, <<"N", "N">>, <<"N", "O", "M", "P">>>>,
      <<>>,
      {<<<<"E", "m", "p", "h", "a", "s", "i", "s">>, {<<"T", "r", "u", "e">>}>>}),
    TagSetItem(<<"I", "N">>,
      <<>>, "lower", TRUE,
      <<<<"N", "N">>, <<"N", "O", "M", "P">>>>,
      <<<<<<"C", "o", "m", "p", "l", "e", "m", "e", "n", "t", "T", "y", "p", "e">>, {<<"C", "A", "b", "l">>, <<"C", "A", "c", "c">>, <<"C", "B", "a", "r", "e">>, <<"C", "D", "a", "t">>, <<"C", "F", "i", "n">>, <<"C", "G", "e", "n">>, <<"C", "I", "n", "s">>, <<"C", "N", "u", "m">>}>>>>,
      {}),
    TagSetItem(<<"R", "B">>,
      <<>>, "lower", TRUE,
      <<>>,
      <<>>,
      {<<<<"E", "m", "p", "h", "a", "s", "i", "s">>, {<<"T", "r", "u", "e">>}>>,
        <<<<"T", "e", "m", "p", "o", "r", "a", "l">>, {<<"T", "r", "u", "e">>}>>}),
    TagSetItem(<<"R", "B", "-", "T", "E", "M", "P">>,
      <<"R", "B">>, "lower", TRUE,
      <<<<"N", "N", "-", "T", "E", "M", "P">>, <<"N", "O", "M", "P">>>>,
      <<<<<<"T", "e", "m", "p", "o", "r", "a", "l">>, {<<"T", "r", "u", "e">>}>>>>,
      {}),
    TagSetItem(<<"W", "R", "B">>,
      <<>>, "lower", TRUE,
      <<<<"N", "O", "M", "P">>>>,
      <<>>,
      {}),
    TagSetItem(<<"P", "F", "X">>,
      <<>>, "lower", TRUE,
      <<>>,
      <<>>,
      {}),
    TagSetItem(<<"C", "C">>,
      <<>>, "lower", TRUE,
      <<>>,
      <<<<<<"C", "o", "n", "j", "u", "n", "c", "t", "i", "o", "n", "T", "y", "p", "e">>, {<<"A", "d", "v">>, <<"C", "o", "o", "r">>, <<"P", "a", "r">>, <<"S", "u", "b">>}>>>>,
      {}),
    TagSetItem(<<"D", "T">>,
      <<>>, "lower", TRUE,
      <<<<"N", "O", "M", "P">>, <<"P", "R", "I">>>>,
      <<<<<<"D", "e", "t", "e", "r", "m", "i", "n", "e", "r", "T", "y", "p", "e">>, {<<"D", "e", "f">>, <<"D", "e", "m">>, <<"D", "i", "r">>, <<"I", "n", "d">>}>>>>,
      {}),
    TagSetItem(<<"P", "D", "T">>,
      <<>>, "lower", TRUE,
      <<<<"N", "O", "M", "P">>>>,
      <<>>,
      {}),
    TagSetItem(<<"W", "D", "T">>,
      <<>>, "lower", TRUE,
      <<<<"P", "R", "I">>, <<"N", "O", "M", "P">>>>,
      <<>>,
      {}),
    TagSetItem(<<"E", "X">>,
      <<>>, "lower", TRUE,
      <<<<"N", "O", "M", "P", "-", "C", "A", "S", "E", "-", "B", "A", "R", "E">>>>,
      <<>>,
      {}),
    TagSetItem(<<"A", "D", "D">>,
      <<>>, "lower", TRUE,
      <<<<"N", "O", "M", "P", "-", "W", "I", "T", "H", "-", "A", "P", "O", "S">>>>,
      <<>>,
      {}),
    TagSetItem(<<"N", "N">>,
      <<>>, "lower", TRUE,
      <<<<"N", "O", "M", "P">>>>,
      <<>>,
      {}),
    TagSetItem(<<"N", "N", "-", "A", "B", "B", "R">>,
      <<"N", "N">>, "upper", TRUE,
      <<<<"N", "O", "M", "P", "-", "W", "I", "T", "H", "-", "A", "P", "O", "S">>>>,
      <<>>,
      {}),
    TagSetItem(<<"N", "N", "-", "A", "B", "B", "R", "-", "A", "P", "O", "S">>,
      <<"N", "N">>, "upper", TRUE,
      <<<<"N", "O", "M", "P", "-", "A", "P", "O", "S">>>>,
      <<>>,
      {}),
    TagSetItem(<<"N", "N", "-", "T", "E", "M", "P">>,
      <<"N", "N">>, "lower", TRUE,
      <<>>,
      <<<<<<"T", "e", "m", "p", "o", "r", "a", "l">>, {<<"T", "r", "u", "e">>}>>>>,
      {}),
    TagSetItem(<<"N", "N", "P">>,
      <<>>, "capitals", TRUE,
      <<<<"N", "O", "M", "P", "-", "W", "I", "T", "H", "-", "A", "P", "O", "S">>>>,
      <<>>,
      {}),
    TagSetItem(<<"N", "N", "P", "-", "A", "B", "B", "R">>,
      <<"N", "N", "P">>, "upper", TRUE,
      <<<<"N", "O", "M", "P", "-", "W", "I", "T", "H", "-", "A", "P", "O", "S">>>>,
      <<>>,
      {}),
    TagSetItem(<<"C", "D">>,
      <<>>, "lower", TRUE,
      <<<<"N", "N">>, <<"N", "O", "M", "P", "-", "W", "I", "T", "H", "-", "A", "P", "O", "S">>>>,
      <<>>,
      {}),
    TagSetItem(<<"C", "D", "-", "D", "I", "S", "T">>,
      <<>>, "lower", FALSE,
      <<<<"N", "N">>, <<"N", "O", "M", "P", "-", "W", "I", "T", "H", "-", "A", "P", "O", "S">>>>,
      <<>>,
      {}),
    TagSetItem(<<"C", "D", "-", "O", "R", "D">>,
      <<>>, "lower", FALSE,
      <<<<"N", "N">>, <<"N", "O", "M", "P", "-", "W", "I", "T", "H", "-", "A", "P", "O", "S">>>>,
      <<>>,
      {}),
    TagSetItem(<<"D", "U", "P">>,
      <<>>, "lower", TRUE,
      <<>>,
      <<>>,
      {}),
    TagSetItem(<<"P", "R", "D">>,
      <<>>, "lower", TRUE,
      <<<<"N", "O", "M", "P">>>>,
      <<>>,
      {}),
    TagSetItem(<<"P", "R", "D", "-", "P", "N", "O", "N">>,
      <<"P", "R", "D">>, "lower", TRUE,
      <<<<"N", "O", "M", "P", "-", "P", "N", "O", "N">>>>,
      <<<<<<"P", "e", "r", "s", "o", "n", "N", "u", "m", "b", "e", "r">>, {<<"A", "1", "p", "l">>, <<"A", "1", "s", "g">>, <<"A", "2", "p", "l">>, <<"A", "2", "s", "g">>, <<"A", "3", "p", "l">>, <<"A", "3", "s", "g">>}>>,
        <<<<"P", "o", "s", "s", "e", "s", "s", "i", "v", "e">>, {<<"P", "n", "o", "n">>}>>>>,
      {}),
    TagSetItem(<<"P", "R", "D", "-", "P", "N", "P", "O", "S", "S">>,
      <<"P", "R", "D">>, "lower", TRUE,
      <<<<"N", "O", "M", "P", "-", "P", "N", "P", "O", "S", "S">>>>,
      <<<<<<"P", "e", "r", "s", "o", "n", "N", "u", "m", "b", "e", "r">>, {<<"A", "1", "p", "l">>, <<"A", "1", "s", "g">>, <<"A", "2", "p", "l">>, <<"A", "2", "s", "g">>, <<"A", "3", "p", "l">>, <<"A", "3", "s", "g">>}>>>>,
      {}),
    TagSetItem(<<"P", "R", "I">>,
      <<>>, "lower", TRUE,
      <<<<"N", "O", "M", "P">>>>,
      <<>>,
      {}),
    TagSetItem(<<"P", "R", "P">>,
      <<>>, "lower", TRUE,
      <<<<"N", "O", "M", "P", "-", "P", "N">>>>,
      <<<<<<"P", "e", "r", "s", "o", "n", "N", "u", "m", "b", "e", "r">>, {<<"A", "1", "p", "l">>, <<"A", "1", "s", "g">>, <<"A", "2", "p", "l">>, <<"A", "2", "s", "g">>, <<"A", "3", "p", "l">>, <<"A", "3", "s", "g">>}>>>>,
      {}),
    TagSetItem(<<"P", "R", "P", "-", "C", "A", "S", "E">>,
      <<"P", "R", "P">>, "lower", TRUE,
      <<<<"N", "O", "M", "P", "-", "C", "A", "S", "E", "-", "M", "A", "R", "K", "E", "D">>>>,
      <<<<<<"P", "e", "r", "s", "o", "n", "N", "u", "m", "b", "e", "r">>, {<<"A", "1", "p", "l">>, <<"A", "1", "s", "g">>, <<"A", "2", "p", "l">>, <<"A", "2", "s", "g">>, <<"A", "3", "p", "l">>, <<"A", "3", "s", "g">>}>>,
        <<<<"P", "o", "s", "s", "e", "s", "s", "i", "v", "e">>, {<<"P", "n", "o", "n">>}>>,
        <<<<"C", "a", "s", "e">>, {<<"A", "b", "l">>, <<"A", "c", "c">>, <<"D", "a", "t">>, <<"G", "e", "n">>, <<"I", "n", "s">>, <<"L", "o", "c">>}>>>>,
      {}),
    TagSetItem(<<"P", "R", "P", "-", "I", "R", "R">>,
      <<"P", "R", "P">>, "lower", TRUE,
      <<<<"N", "O", "M", "P", "-", "P", "N", "O", "N">>>>,
      <<<<<<"P", "e", "r", "s", "o", "n", "N", "u", "m", "b", "e", "r">>, {<<"A", "1", "p", "l">>, <<"A", "1", "s", "g">>, <<"A", "2", "p", "l">>, <<"A", "2", "s", "g">>, <<"A", "3", "p", "l">>, <<"A", "3", "s", "g">>}>>,
        <<<<"P", "o", "s", "s", "e", "s", "s", "i", "v", "e">>, {<<"P", "n", "o", "n">>}>>>>,
      {}),
    TagSetItem(<<"P", "R", "P", "$">>,
      <<>>, "lower", TRUE,
      <<<<"N", "O", "M", "P", "-", "P", "N", "O", "N">>>>,
      <<<<<<"P", "e", "r", "s", "o", "n", "N", "u", "m", "b", "e", "r">>, {<<"A", "1", "p", "l">>, <<"A", "1", "s", "g">>, <<"A", "2", "p", "l">>, <<"A", "2", "s", "g">>, <<"A", "3", "p", "l">>, <<"A", "3", "s", "g">>}>>,
        <<<<"P", "o", "s", "s", "e", "s", "s", "i", "v", "e">>, {<<"P", "n", "o", "n">>}>>>>,
      {}),
    TagSetItem(<<"P", "R", "R">>,
      <<>>, "lower", TRUE,
      <<<<"N", "O", "M", "P">>>>,
      <<>>,
      {}),
    TagSetItem(<<"W", "P">>,
      <<>>, "lower", TRUE,
      <<<<"N", "O", "M", "P">>>>,
      <<>>,
      {}),
    TagSetItem(<<"E", "P">>,
      <<>>, "lower", TRUE,
      <<>>,
      <<>>,
      {}),
    TagSetItem(<<"O", "P">>,
      <<>>, "lower", TRUE,
      <<>>,
      <<>>,
      {}),
    TagSetItem(<<"R", "P", "C">>,
      <<>>, "lower", TRUE,
      <<>>,
      <<>>,
      {}),
    TagSetItem(<<"R", "P", "N", "E", "G">>,
      <<>>, "lower", TRUE,
      <<<<"N", "O", "M", "P", "-", "C", "A", "S", "E", "-", "B", "A", "R", "E">>>>,
      <<>>,
      {}),
    TagSetItem(<<"R", "P", "Q">>,
      <<>>, "lower", TRUE,
      <<<<"N", "O", "M", "P", "-", "C", "A", "S", "E", "-", "B", "A", "R", "E">>>>,
      <<>>,
      {}),
    TagSetItem(<<"P", "U", "N", "C", "T", "-", "1">>,
      <<".">>, "lower", TRUE,
      <<>>,
      <<>>,
      {}),
    TagSetItem(<<"P", "U", "N", "C", "T", "-", "2">>,
      <<",">>, "lower", TRUE,
      <<>>,
      <<>>,
      {}),
    TagSetItem(<<"P", "U", "N", "C", "T", "-", "3">>,
      <<":">>, "lower", TRUE,
      <<>>,
      <<>>,
      {}),
    TagSetItem(<<"P", "U", "N", "C", "T", "-", "4">>,
      <<"(">>, "lower", TRUE,
      <<>>,
      <<>>,
      {}),
    TagSetItem(<<"P", "U", "N", "C", "T", "-", "5">>,
      <<")">>, "lower", TRUE,
      <<>>,
      <<>>,
      {}),
    TagSetItem(<<"P", "U", "N", "C", "T", "-", "6">>,
      <<"grave", "grave">>, "lower", TRUE,
      <<>>,
      <<>>,
      {}),
    TagSetItem(<<"P", "U", "N", "C", "T", "-", "7">>,
      <<"'">>, "lower", TRUE,
      <<>>,
      <<>>,
      {}),
    TagSetItem(<<"P", "U", "N", "C", "T", "-", "8">>,
      <<"-">>, "lower", TRUE,
      <<>>,
      <<>>,
      {}),
    TagSetItem(<<"N", "O", "M", "P">>,
      <<>>, "lower", TRUE,
      <<>>,
      <<>>,
      {}),
    TagSetItem(<<"N", "O", "M", "P", "-", "A", "P", "O", "S">>,
      <<"N", "O", "M", "P">>, "lower", TRUE,
      <<>>,
      <<>>,
      {}),
    TagSetItem(<<"N", "O", "M", "P", "-", "C", "A", "S", "E", "-", "B", "A", "R", "E">>,
      <<"N", "O", "M", "P">>, "lower", TRUE,
      <<>>,
      <<<<<<"P", "e", "r", "s", "o", "n", "N", "u", "m", "b", "e", "r">>, {<<"A", "3", "s", "g">>}>>,
        <<<<"P", "o", "s", "s", "e", "s", "s", "i", "v", "e">>, {<<"P", "n", "o", "n">>}>>,
        <<<<"C", "a", "s", "e">>, {<<"B", "a", "r", "e">>}>>>>,
      {}),
    TagSetItem(<<"N", "O", "M", "P", "-", "C", "A", "S", "E", "-", "M", "A", "R", "K", "E", "D">>,
      <<"N", "O", "M", "P">>, "lower", TRUE,
      <<>>,
      <<<<<<"P", "e", "r", "s", "o", "n", "N", "u", "m", "b", "e", "r">>, {<<"A", "1", "p", "l">>, <<"A", "1", "s", "g">>, <<"A", "2", "p", "l">>, <<"A", "2", "s", "g">>, <<"A", "3", "p", "l">>, <<"A", "3", "s", "g">>}>>,
        <<<<"P", "o", "s", "s", "e", "s", "s", "i", "v", "e">>, {<<"P", "n", "o", "n">>}>>,
        <<<<"C", "a", "s", "e">>, {<<"A", "b", "l">>, <<"A", "c", "c">>, <<"D", "a", "t">>, <<"G", "e", "n">>, <<"I", "n", "s">>, <<"L", "o", "c">>}>>>>,
      {}),
    TagSetItem(<<"N", "O", "M", "P", "-", "P", "N">>,
      <<"N", "O", "M", "P">>, "lower", TRUE,
      <<>>,
      <<<<<<"P", "e", "r", "s", "o", "n", "N", "u", "m", "b", "e", "r">>, {<<"A", "1", "p", "l">>, <<"A", "1", "s", "g">>, <<"A", "2", "p", "l">>, <<"A", "2", "s", "g">>, <<"A", "3", "p", "l">>, <<"A", "3", "s", "g">>}>>>>,
      {}),
    TagSetItem(<<"N", "O", "M", "P", "-", "P", "N", "O", "N">>,
      <<"N", "O", "M", "P">>, "lower", TRUE,
      <<>>,
      <<<<<<"P", "e", "r", "s", "o", "n", "N", "u", "m", "b", "e", "r">>, {<<"A", "1", "p", "l">>, <<"A", "1", "s", "g">>, <<"A", "2", "p", "l">>, <<"A", "2", "s", "g">>, <<"A", "3", "p", "l">>, <<"A", "3", "s", "g">>}>>,
        <<<<"P", "o", "s", "s", "e", "s", "s", "i", "v", "e">>, {<<"P", "n", "o", "n">>}>>>>,
      {}),
    TagSetItem(<<"N", "O", "M", "P", "-", "P", "N", "P", "O", "S", "S">>,
      <<"N", "O", "M", "P">>, "lower", TRUE,
      <<>>,
      <<<<<<"P", "e", "r", "s", "o", "n", "N", "u", "m", "b", "e", "r">>, {<<"A", "1", "p", "l">>, <<"A", "1", "s", "g">>, <<"A", "2", "p", "l">>, <<"A", "2", "s", "g">>, <<"A", "3", "p", "l">>, <<"A", "3", "s", "g">>}>>>>,
      {}),
    TagSetItem(<<"N", "O", "M", "P", "-", "W", "I", "T", "H", "-", "A", "P", "O", "S">>,
      <<"N", "O", "M", "P">>, "lower", TRUE,
      <<>>,
      <<>>,
      {}),
    TagSetItem(<<"V", "B", "-", "H", "L", "-", "A", "R", "-", "D", "H", "R">>,
      <<"V", "B">>, "lower", TRUE,
      <<>>,
      <<>>,
      {}),
    TagSetItem(<<"V", "B", "-", "H", "L", "-", "A", "R", "-", "H", "R">>,
      <<"V", "B">>, "lower", TRUE,
      <<>>,
      <<>>,
      {}),
    TagSetItem(<<"V", "B", "-", "H", "L", "-", "A", "R", "-", "H", "T">>,
      <<"V", "B">>, "lower", TRUE,
      <<>>,
      <<>>,
      {}),
    TagSetItem(<<"V", "B", "-", "H", "L", "-", "A", "R", "-", "N", "O">>,
      <<"V", "B">>, "lower", TRUE,
      <<>>,
      <<>>,
      {}),
    TagSetItem(<<"V", "B", "-", "H", "L", "-", "A", "R", "-", "T">>,
      <<"V", "B">>, "lower", TRUE,
      <<>>,
      <<>>,
      {}),
    TagSetItem(<<"V", "B", "-", "H", "L", "-", "H", "R", "-", "D", "H", "R">>,
      <<"V", "B">>, "lower", TRUE,
      <<>>,
      <<>>,
      {}),
    TagSetItem(<<"V", "B", "-", "H", "L", "-", "H", "R", "-", "N", "O">>,
      <<"V", "B">>, "lower", TRUE,
      <<>>,
      <<>>,
      {}),
    TagSetItem(<<"V", "B", "-", "H", "L", "-", "H", "R", "-", "T">>,
      <<"V", "B">>, "lower", TRUE,
      <<>>,
      <<>>,
      {}),
    TagSetItem(<<"V", "B", "-", "H", "N", "-", "A", "R", "-", "D", "H", "R">>,
      <<"V", "B">>, "lower", TRUE,
      <<>>,
      <<>>,
      {}),
    TagSetItem(<<"V", "B", "-", "H", "N", "-", "H", "R", "-", "D", "H", "R">>,
      <<"V", "B">>, "lower", TRUE,
      <<>>,
      <<>>,
      {}),
    TagSetItem(<<"V", "B", "-", "H", "N", "-", "H", "R", "-", "N", "O">>,
      <<"V", "B">>, "lower", TRUE,
      <<>>,
      <<>>,
      {}),
    TagSetItem(<<"V", "B", "-", "H", "N", "-", "H", "R", "-", "T">>,
      <<"V", "B">>, "lower", TRUE,
      <<>>,
      <<>>,
      {}),
    TagSetItem(<<"V", "B", "-", "O", "N", "-", "O", "R", "-", "D", "H", "R">>,
      <<"V", "B">>, "lower", TRUE,
      <<>>,
      <<>>,
      {}),
    TagSetItem(<<"V", "B", "-", "O", "N", "-", "O", "R", "-", "T">>,
      <<"V", "B">>, "lower", TRUE,
      <<>>,
      <<>>,
      {}),
    TagSetItem(<<"F", "W">>,
      <<>>, "lower", TRUE,
      <<>>,
      <<>>,
      {}),
    TagSetItem(<<"G", "W">>,
      <<>>, "lower", TRUE,
      <<>>,
      <<>>,
      {}),
    TagSetItem(<<"L", "S">>,
      <<>>, "lower", TRUE,
      <<>>,
      <<>>,
      {}),
    TagSetItem(<<"N", "F", "P">>,
      <<>>, "lower", TRUE,
      <<>>,
      <<>>,
      {}),
    TagSetItem(<<"S", "Y", "M">>,
      <<>>, "lower", TRUE,
      <<>>,
      <<>>,
      {}),
    TagSetItem(<<"U", "H">>,
      <<>>, "lower", TRUE,
      <<>>,
      <<>>,
      {}),
    TagSetItem(<<"X", "X">>,
      <<>>, "lower", TRUE,
      <<>>,
      <<>>,
      {})
  >>

\* {t.tag: t.<field> for t in items}
TagDict(items, field) ==
  [tag \in {items[k].tag : k \in DOMAIN items} |->
     (CHOOSE t \in Range(items) : t.tag = tag)[field]]

\* t.output_as if t.output_as else t.tag, for each tag of the dictionary
OrTag(output_as) ==
  [tag \in DOMAIN output_as |->
     IF output_as[tag] # <<>> THEN output_as[tag] ELSE tag]

VALID_TAGS == {_TAG_SET[k].tag : k \in DOMAIN _TAG_SET}

OUTPUT_AS == OrTag(TagDict(_TAG_SET, "output_as"))

FORMATTING == TagDict(_TAG_SET, "formatting")

FST_STATES == {t.tag : t \in {u \in Range(_TAG_SET) : u.is_fst_state}}

CROSS_CLASSIFY_AS == TagDict(_TAG_SET, "cross_classify_as")

REQUIRED_FEATURES == TagDict(_TAG_SET, "required_features")

OPTIONAL_FEATURES == TagDict(_TAG_SET, "optional_features")

\* ------------------------------------------------------------------------
\* morphotactics/common.py: the names shared by the compiler's modules
\* ------------------------------------------------------------------------

EPSILON == <<"<", "e", "p", "s", ">">>
START_STATE == <<"S", "T", "A", "R", "T">>
ACCEPT_STATE == <<"A", "C", "C", "E", "P", "T">>

\* ------------------------------------------------------------------------
\* lexicon/validator.py
\* ------------------------------------------------------------------------

\* An entry is a dictionary: a function from field names to values.
\* An error is the pair of its message and the fields the message lists;
\* NoError stands for a call that returns without raising.
NoError == <<>>
Error(message, fields) == <<message, fields>>

\* \+\[[A-z0-9]+?=[A-z0-9]+?\]
_FEATURE_CATEGORY_VALUE_REGEX ==
  Cat(<<Lit(<<"+", "[">>), PlusLazy(Cls(Az09)), Lit(<<"=">>), PlusLazy(Cls(Az09)),
        Lit(<<"]">>)>>)

\* (?:\+\[[A-z0-9]+?=[A-z0-9]+?\])+
_FEATURES_REGEX == PlusGreedy(_FEATURE_CATEGORY_VALUE_REGEX)

_REQUIRED_FIELDS ==
  {<<"t", "a", "g">>, <<"r", "o", "o", "t">>, <<"m", "o", "r", "p", "h", "o", "p", "h", "o", "n", "e", "m", "i", "c", "s">>, <<"f", "e", "a", "t", "u", "r", "e", "s">>, <<"i", "s", "_", "c", "o", "m", "p", "o", "u", "n", "d">>}

_tag_of(entry) == PyUpper(entry[<<"t", "a", "g">>])

_morphophonemics_of(entry) == entry[<<"m", "o", "r", "p", "h", "o", "p", "h", "o", "n", "e", "m", "i", "c", "s">>]

_features_of(entry) == entry[<<"f", "e", "a", "t", "u", "r", "e", "s">>]

_is_compound_of(entry) == PyLower(entry[<<"i", "s", "_", "c", "o", "m", "p", "o", "u", "n", "d">>])

\* The two groups of one match of _FEATURE_CATEGORY_VALUE_REGEX: the
\* category runs up to the first "=" (no category character is "="), the
\* value from there to the closing bracket.
GroupsOf(match) ==
  LET eq == CHOOSE i \in DOMAIN match :
              match[i] = "=" /\ \A j \in 1..(i - 1) : match[j] # "="
  IN <<SubSeq(match, 3, eq - 1), SubSeq(match, eq + 1, Len(match) - 1)>>

_category_value_pairs(features) ==
  LET found == FindAll(_FEATURE_CATEGORY_VALUE_REGEX, features)
  IN [i \in DOMAIN found |-> GroupsOf(found[i])]

_entry_has_required_fields(entry) ==
  LET missing_fields == {f \in _REQUIRED_FIELDS : f \notin DOMAIN entry} IN
  IF missing_fields # {}
    THEN Error("Entry is missing fields", PySorted(missing_fields))
    ELSE NoError

_entry_field_values_are_not_empty(entry) ==
  LET empty_fields == {f \in _REQUIRED_FIELDS : entry[f] = <<>>} IN
  IF empty_fields # {}
    THEN Error("Entry fields have empty values", PySorted(empty_fields))
    ELSE NoError

_entry_field_values_does_not_contain_infix_whitespace(entry) ==
  LET _has_multi_token_value(field) == Len(PySplit(entry[field])) # 1
      fields_to_check == {<<"t", "a", "g">>, <<"m", "o", "r", "p", "h", "o", "p", "h", "o", "n", "e", "m", "i", "c", "s">>, <<"f", "e", "a", "t", "u", "r", "e", "s">>}
      multi_token_fields ==
        {f \in fields_to_check : _has_multi_token_value(f)}
  IN IF multi_token_fields # {}
       THEN Error("Entry field values contain whitespace",
                  PySorted(multi_token_fields))
       ELSE NoError

_entry_tag_is_valid(entry) ==
  IF _tag_of(entry) \notin VALID_TAGS
    THEN Error("Entry 'tag' field has invalid value", <<>>)
    ELSE NoError

_entry_compound_annotation_is_valid(entry) ==
  IF _is_compound_of(entry) \notin {<<"t", "r", "u", "e">>, <<"f", "a", "l", "s", "e">>}
    THEN Error("Entry 'is_compound' field has invalid value", <<>>)
    ELSE NoError

_entry_morphophonemics_annotation_is_valid(entry) ==
  IF _is_compound_of(entry) = <<"t", "r", "u", "e">> /\ _morphophonemics_of(entry) = <<"~">>
    THEN Error("Entry is marked as ending with compounding marker but it is missing morphophonemics annotation", <<>>)
    ELSE NoError

_entry_features_annotation_is_valid(entry) ==
  LET features == _features_of(entry) IN
  IF ~(features = <<"~">> \/ FullMatch(_FEATURES_REGEX, features))
    THEN Error("Entry features annotation is invalid", <<>>)
    ELSE NoError

_entry_has_required_features(entry) ==
  IF _features_of(entry) = <<"~">> /\ REQUIRED_FEATURES[_tag_of(entry)] # <<>>
    THEN Error("Entry is missing required features", <<>>)
    ELSE NoError

\* The required features of the tag against the pairs of the annotation.
\* zip(*category_value) of no pairs cannot be unpacked: a ValueError.
_required_features_are_valid(required, category_value) ==
  IF required = <<>> THEN NoError
  ELSE IF category_value = <<>> THEN Error("ValueError", <<>>)
  ELSE IF [i \in DOMAIN category_value |-> category_value[i][1]]
          # [i \in DOMAIN required |-> required[i][1]]
    THEN Error("Entry has invalid required feature category", <<>>)
  ELSE IF \E i \in DOMAIN category_value :
            category_value[i][2] \notin required[i][2]
    THEN Error("Entry has invalid required feature value", <<>>)
  ELSE NoError

_entry_required_features_are_valid(entry) ==
  _required_features_are_valid(REQUIRED_FEATURES[_tag_of(entry)],
                               _category_value_pairs(_features_of(entry)))

\* The optional features of the tag against the pairs of the annotation.
_optional_features_are_valid(optional, category_value) ==
  IF optional = {} THEN NoError
  ELSE IF ~(\A i \in DOMAIN category_value :
              \E item \in optional :
                 /\ item[1] = category_value[i][1]
                 /\ category_value[i][2] \in item[2])
    THEN Error("Entry has invalid optional features", <<>>)
  ELSE NoError

_entry_optional_features_are_valid(entry) ==
  _optional_features_are_valid(OPTIONAL_FEATURES[_tag_of(entry)],
                               _category_value_pairs(_features_of(entry)))

_entry_features_are_not_redundant(entry) ==
  IF ~(REQUIRED_FEATURES[_tag_of(entry)] # <<>>
       \/ OPTIONAL_FEATURES[_tag_of(entry)] # {})
     /\ _features_of(entry) # <<"~">>
    THEN Error("Entry has features while it is not expected to have any", <<>>)
    ELSE NoError

\* The checks with the tag checked after the compound annotation.
ChecksWithTagLater ==
  <<"_entry_has_required_fields",
    "_entry_field_values_are_not_empty",
    "_entry_field_values_does_not_contain_infix_whitespace",
    "_entry_compound_annotation_is_valid",
    "_entry_tag_is_valid",
    "_entry_morphophonemics_annotation_is_valid",
    "_entry_features_annotation_is_valid",
    "_entry_has_required_features",
    "_entry_required_features_are_valid",
    "_entry_optional_features_are_valid",
    "_entry_features_are_not_redundant">>

\* The checks of validate, in the order it calls them.
Checks ==
  <<"_entry_has_required_fields",
    "_entry_field_values_are_not_empty",
    "_entry_field_values_does_not_contain_infix_whitespace",
    "_entry_tag_is_valid",
    "_entry_compound_annotation_is_valid",
    "_entry_morphophonemics_annotation_is_valid",
    "_entry_features_annotation_is_valid",
    "_entry_has_required_features",
    "_entry_required_features_are_valid",
    "_entry_optional_features_are_valid",
    "_entry_features_are_not_redundant">>

\* A call of one check: the error it raises, or NoError.
Call(check, entry) ==
  CASE check = "_entry_has_required_fields" ->
         _entry_has_required_fields(entry)
    [] check = "_entry_field_values_are_not_empty" ->
         _entry_field_values_are_not_empty(entry)
    [] check = "_entry_field_values_does_not_contain_infix_whitespace" ->
         _entry_field_values_does_not_contain_infix_whitespace(entry)
    [] check = "_entry_tag_is_valid" ->
         _entry_tag_is_valid(entry)
    [] check = "_entry_compound_annotation_is_valid" ->
         _entry_compound_annotation_is_valid(entry)
    [] check = "_entry_morphophonemics_annotation_is_valid" ->
         _entry_morphophonemics_annotation_is_valid(entry)
    [] check = "_entry_features_annotation_is_valid" ->
         _entry_features_annotation_is_valid(entry)
    [] check = "_entry_has_required_features" ->
         _entry_has_required_features(entry)
    [] check = "_entry_required_features_are_valid" ->
         _entry_required_features_are_valid(entry)
    [] check = "_entry_optional_features_are_valid" ->
         _entry_optional_features_are_valid(entry)
    [] check = "_entry_features_are_not_redundant" ->
         _entry_features_are_not_redundant(entry)

\* A call that raises ends the run; the rest is run when it returns.
OrElse(raised, rest) == IF raised # NoError THEN raised ELSE rest

\* The calls of the checks one after the other: the error of the first one
\* that raises ends the run, and no later check is called.
RECURSIVE RunChecks(_, _)
RunChecks(checks, entry) ==
  IF checks = <<>> THEN NoError
  ELSE OrElse(Call(Head(checks), entry), RunChecks(Tail(checks), entry))

validate(entry) == RunChecks(Checks, entry)


\* ------------------------------------------------------------------------
\* lexicon/parser.py
\* ------------------------------------------------------------------------

_lower(string) == PyLower(PyReplace(PyReplace(string, "I.", "i"), "I", "i~"))

_upper(string) == PyUpper(PyReplace(string, "i", "I."))

\* The result of string.replace("i", "I.", 1) for a string that starts with
\* "i" is dropped: strings are immutable and the call is not assigned.
_capitalize(string) == PyCapitalize(PyReplace(string, "I", "i~"))

_format_root(root, tag) ==
  LET formatting == FORMATTING[tag] IN
  CASE formatting = "lower" -> _lower(root)
    [] formatting = "upper" -> _upper(root)
    [] formatting = "capitals" -> _capitalize(root)
    [] OTHER -> root

\* The items of the circumflex dictionary of _normalize, in its order.
circumflex == <<<<"a^", "a">>, <<"i^", "i">>, <<"u^", "u">>>>

_normalize_entry(entry) ==
  LET tag == PyUpper(entry[<<"t", "a", "g">>])
      unannotated(value) == IF value = <<"~">> THEN <<>> ELSE value
  IN [f \in DOMAIN entry |->
        CASE f = <<"t", "a", "g">> -> tag
          [] f = <<"i", "s", "_", "c", "o", "m", "p", "o", "u", "n", "d">> -> PyLower(entry[<<"i", "s", "_", "c", "o", "m", "p", "o", "u", "n", "d">>]) = <<"t", "r", "u", "e">>
          [] f = <<"r", "o", "o", "t">> -> _format_root(entry[<<"r", "o", "o", "t">>], tag)
          [] f = <<"m", "o", "r", "p", "h", "o", "p", "h", "o", "n", "e", "m", "i", "c", "s">> -> unannotated(entry[<<"m", "o", "r", "p", "h", "o", "p", "h", "o", "n", "e", "m", "i", "c", "s">>])
          [] f = <<"f", "e", "a", "t", "u", "r", "e", "s">> -> unannotated(entry[<<"f", "e", "a", "t", "u", "r", "e", "s">>])
          [] OTHER -> entry[f]]

_root_has_circumflex(entry) ==
  \E i \in DOMAIN circumflex : circumflex[i][1] \in Range(entry[<<"r", "o", "o", "t">>])

RECURSIVE ReplaceEach(_, _)
ReplaceEach(string, pairs) ==
  IF pairs = <<>> THEN string
  ELSE ReplaceEach(PyReplace(string, Head(pairs)[1], Head(pairs)[2]),
                   Tail(pairs))

\* _make_entry of _normalize
_make_plain_entry(entry) ==
  [f \in DOMAIN entry |->
     IF f \in {<<"r", "o", "o", "t">>, <<"m", "o", "r", "p", "h", "o", "p", "h", "o", "n", "e", "m", "i", "c", "s">>}
       THEN ReplaceEach(entry[f], circumflex) ELSE entry[f]]

_normalize(entries) ==
  LET normalized == [i \in DOMAIN entries |-> _normalize_entry(entries[i])]
      with_circumflex == SelectSeq(normalized, _root_has_circumflex)
      new_entries ==
        [i \in DOMAIN with_circumflex |-> _make_plain_entry(with_circumflex[i])]
  IN normalized \o new_entries

NOMP_CASE_BARE_FEATURES ==
  <<"+", "[", "P", "e", "r", "s", "o", "n", "N", "u", "m", "b", "e", "r", "=", "A", "3", "s", "g", "]", "+", "[", "P", "o", "s", "s", "e", "s", "s", "i", "v", "e", "=", "P", "n", "o", "n", "]", "+", "[", "C", "a", "s", "e", "=", "B", "a", "r", "e", "]">>

\* Features kept only when the required and the optional features of the
\* tags are both equal.
_new_features_of_equal_schemas(old_features, old_tag, new_tag) ==
  IF new_tag = <<"N", "O", "M", "P", "-", "C", "A", "S", "E", "-", "B", "A", "R", "E">> THEN NOMP_CASE_BARE_FEATURES
  ELSE IF /\ REQUIRED_FEATURES[old_tag] = REQUIRED_FEATURES[new_tag]
          /\ OPTIONAL_FEATURES[old_tag] = OPTIONAL_FEATURES[new_tag]
    THEN old_features
  ELSE <<>>

\* No value of REQUIRED_FEATURES or OPTIONAL_FEATURES is None: a TagSetItem
\* without them holds an empty dictionary, so each "is not None" holds.
_new_features(old_features, old_tag, new_tag) ==
  LET old_required == REQUIRED_FEATURES[old_tag]
      new_required == REQUIRED_FEATURES[new_tag]
      old_optional == OPTIONAL_FEATURES[old_tag]
      new_optional == OPTIONAL_FEATURES[new_tag]
  IN IF new_tag = <<"N", "O", "M", "P", "-", "C", "A", "S", "E", "-", "B", "A", "R", "E">> THEN NOMP_CASE_BARE_FEATURES
     ELSE IF old_required = new_required THEN old_features
     ELSE IF old_optional = new_optional THEN old_features
     ELSE <<>>

\* _make_entry of _cross_classify
_make_cross_entry(entry, old_tag, new_tag) ==
  [f \in DOMAIN entry |->
     CASE f = <<"t", "a", "g">> -> new_tag
       [] f = <<"r", "o", "o", "t">> -> _format_root(entry[<<"r", "o", "o", "t">>], new_tag)
       [] f = <<"f", "e", "a", "t", "u", "r", "e", "s">> -> _new_features(entry[<<"f", "e", "a", "t", "u", "r", "e", "s">>], old_tag, new_tag)
       [] OTHER -> entry[f]]

_new_entries(entry) ==
  LET old_tag == entry[<<"t", "a", "g">>]
      new_tags == CROSS_CLASSIFY_AS[old_tag]
  IN [i \in DOMAIN new_tags |-> _make_cross_entry(entry, old_tag, new_tags[i])]

\* A cross-classification that goes on with the entries it has made.
_cross_classify_again(entries) ==
  LET once ==
        entries \o Flatten([i \in DOMAIN entries |-> _new_entries(entries[i])])
      made == SubSeq(once, Len(entries) + 1, Len(once))
  IN once \o Flatten([i \in DOMAIN made |-> _new_entries(made[i])])

_cross_classify(entries) ==
  entries \o Flatten([i \in DOMAIN entries |-> _new_entries(entries[i])])

_rule_input(entry) ==
  <<"(">> \o entry[<<"r", "o", "o", "t">>] \o <<"[">> \o OUTPUT_AS[entry[<<"t", "a", "g">>]] \o <<"]">>
      \o entry[<<"f", "e", "a", "t", "u", "r", "e", "s">>]

_rule_output(entry) ==
  IF entry[<<"m", "o", "r", "p", "h", "o", "p", "h", "o", "n", "e", "m", "i", "c", "s">>] # <<>> THEN entry[<<"m", "o", "r", "p", "h", "o", "p", "h", "o", "n", "e", "m", "i", "c", "s">>]
  ELSE _lower(entry[<<"r", "o", "o", "t">>])

\* A rewrite rule (rule_pb2.RewriteRule).
RewriteRule(from_state, to_state, input, output) ==
  [from_state |-> from_state, to_state |-> to_state,
   input |-> input, output |-> output]

_create_rewrite_rule(entry) ==
  RewriteRule(START_STATE, entry[<<"t", "a", "g">>], _rule_input(entry),
              _rule_output(entry))

\* No entry left out.
_all_entries(entries) == entries

_state_entries(entries) ==
  LET is_state_entry(e) == e[<<"t", "a", "g">>] \in FST_STATES
  IN SelectSeq(entries, is_state_entry)

_rules_of(entries) ==
  LET state_entries == _state_entries(entries)
  IN [i \in DOMAIN state_entries |-> _create_rewrite_rule(state_entries[i])]

\* lexicon_parser.parse
lexicon_parse(entries) == _rules_of(_cross_classify(_normalize(entries)))

\* ------------------------------------------------------------------------
\* lexicon/reader.py
\*
\* A file is the tuple of its lines, each without its line terminator (the
\* readers strip it with the other whitespace, and a blank line is empty
\* either way).
\* ------------------------------------------------------------------------

\* The outcome of a call: the value it returns, or the error it raises.
Returned(value) == [error |-> NoError, value |-> value]

Raised(error) == [error |-> error, value |-> <<>>]

_whitespace_trimmed(line) == PyRStrip(PyLStrip(line))

_empty(line) == line = <<>> \/ PyIsSpace(line)

_split(line) ==
  LET columns == PySplitOn(line, "\t")
  IN [i \in DOMAIN columns |-> _whitespace_trimmed(columns[i])]

Min(a, b) == IF a <= b THEN a ELSE b

\* dict(zip(keys, values)): the pairs up to the shorter length, the last
\* value of a repeated key.
DictOfZip(keys, values) ==
  LET n == Min(Len(keys), Len(values)) IN
  [k \in {keys[i] : i \in 1..n} |->
     values[CHOOSE i \in 1..n :
              keys[i] = k /\ \A j \in (i + 1)..n : keys[j] # k]]

\* The items (row index, entry) of the dictionary read_lexicon_entries
\* returns, in its order; lines[0] of a file without lines is an IndexError.
read_lexicon_entries(lines) ==
  IF lines = <<>> THEN Raised(Error("IndexError", <<>>))
  ELSE LET header == Head(lines)
           entries == Tail(lines)
           field_names == _split(header)
           _index_and_entry(index) ==
             <<index + 1, DictOfZip(field_names, _split(entries[index]))>>
           non_empty(index) == ~_empty(entries[index])
           indices == SelectSeq([i \in DOMAIN entries |-> i], non_empty)
       IN Returned([k \in DOMAIN indices |-> _index_and_entry(indices[k])])

\* ------------------------------------------------------------------------
\* morphotactics/reader.py
\* ------------------------------------------------------------------------

_comment(line) == PyStartsWith(line, <<"#">>)

_rule(line) == ~(_empty(line) \/ _comment(line))

\* The items (line index, tokens) of the dictionary read_rule_definitions
\* returns, in its order.
read_rule_definitions(lines) ==
  LET is_rule(index) == _rule(lines[index])
      indices == SelectSeq([i \in DOMAIN lines |-> i], is_rule)
  IN [k \in DOMAIN indices |->
        <<indices[k], PySplit(_whitespace_trimmed(lines[indices[k]]))>>]

\* ------------------------------------------------------------------------
\* morphotactics/validator.py
\* ------------------------------------------------------------------------

\* [A-z]+?=[A-z]+?\] after an opening bracket
DerivationFeature ==
  Cat(<<Lit(<<"[">>), PlusLazy(Cls(Az)), Lit(<<"=">>), PlusLazy(Cls(Az)), Lit(<<"]">>)>>)

\* \[[A-z]+?=[A-z0-9]+?\]
InflectionFeature ==
  Cat(<<Lit(<<"[">>), PlusLazy(Cls(Az)), Lit(<<"=">>), PlusLazy(Cls(Az09)),
        Lit(<<"]">>)>>)

\* \[[A-Z]+?\]
BracketedTag == Cat(<<Lit(<<"[">>), PlusLazy(Cls(AZ)), Lit(<<"]">>)>>)

\* \)\+\[Proper=(?:True|False)\]
ProperFeature ==
  Cat(<<Lit(<<")", "+", "[", "P", "r", "o", "p", "e", "r", "=">>), Alt(<<Lit(<<"T", "r", "u", "e">>), Lit(<<"F", "a", "l", "s", "e">>)>>), Lit(<<"]">>)>>)

_RULE_INPUT_REGEX ==
  Alt(<<
    PlusGreedy(Alt(<<
      \* Inflectional group boundaries:
      \* \)?\(\[[A-Z]+?\]-([^\W\d_]|')+?\[[A-z]+?=[A-z]+?\]
      Cat(<<Opt(Lit(<<")">>)), Lit(<<"(">>), BracketedTag, Lit(<<"-">>),
            PlusLazy(Alt(<<Cls(Letter), Cls({"'"})>>)), DerivationFeature>>),
      \* Inflectional morphemes and features:
      \* \+([^\W\d_]|['\.])*?\[[A-z]+?=[A-z0-9]+?\]
      Cat(<<Lit(<<"+">>), StarLazy(Alt(<<Cls(Letter), Cls({"'", "."})>>)),
            InflectionFeature>>),
      \* Proper noun analysis.
      ProperFeature,
      \* Numbers: \d+?(?:\[[A-Z]+?\])?
      Cat(<<PlusLazy(Cls(Digit)), Opt(BracketedTag)>>)
    >>)),
    \* Parenthesis or decimal point separators: [\(\.,]
    Cls({"(", ".", ","})
  >>)

_RULE_OUTPUT_REGEX ==
  Alt(<<
    \* Meta-morphemes: '?\+[^\W\d_]+
    Cat(<<Opt(Lit(<<"'">>)), Lit(<<"+">>), PlusGreedy(Cls(Letter))>>),
    \* Morphophonemics of numbers: \d+(?:\.?\*?([^\W\d_]|['~])+\*?)?
    Cat(<<PlusGreedy(Cls(Digit)),
          Opt(Cat(<<Opt(Lit(<<".">>)), Opt(Lit(<<"*">>)),
                    PlusGreedy(Alt(<<Cls(Letter), Cls({"'", "~"})>>)),
                    Opt(Lit(<<"*">>))>>))>>),
    \* Comma, full-stop or apostrophe: [',\.]
    Cls({"'", ",", "."})
  >>)

_rule_has_expected_number_of_tokens(rule_definition) ==
  IF Len(rule_definition) # 4
    THEN Error("Expecting 4 tokens got", <<Len(rule_definition)>>)
    ELSE NoError

_rule_has_non_empty_tokens(rule_definition) ==
  IF \E i \in DOMAIN rule_definition : rule_definition[i] = <<>>
    THEN Error("Rule definition contains empty tokens", <<>>)
    ELSE NoError

_rule_input_is_valid(input_label) ==
  IF PyLower(input_label) = EPSILON THEN NoError
  ELSE IF ~FullMatch(_RULE_INPUT_REGEX, input_label)
    THEN Error("Invalid rule input label", <<>>)
  ELSE NoError

_rule_output_is_valid(output_label) ==
  IF PyLower(output_label) = EPSILON THEN NoError
  ELSE IF ~FullMatch(_RULE_OUTPUT_REGEX, output_label)
    THEN Error("Invalid rule output label", <<>>)
  ELSE NoError

morphotactics_validate(rule_definition) ==
  LET e1 == _rule_has_expected_number_of_tokens(rule_definition)
      e2 == _rule_has_non_empty_tokens(rule_definition)
      e3 == _rule_input_is_valid(rule_definition[3])
      e4 == _rule_output_is_valid(rule_definition[4])
  IN IF e1 # NoError THEN e1
     ELSE IF e2 # NoError THEN e2
     ELSE IF e3 # NoError THEN e3
     ELSE e4

\* ------------------------------------------------------------------------
\* morphotactics/parser.py
\* ------------------------------------------------------------------------

_bracketed(token) == PyStartsWith(token, <<"<">>) /\ PyEndsWith(token, <<">">>)

\* _get_normalized that leaves the labels as they are written.
_get_normalized_states(rule_definition) ==
  LET from_state == rule_definition[1]
      to_state == rule_definition[2]
      input_ == rule_definition[3]
      output == rule_definition[4]
  IN <<PyUpper(from_state), PyUpper(to_state), input_, output>>

_get_normalized(rule_definition) ==
  LET from_state == rule_definition[1]
      to_state == rule_definition[2]
      input_ == rule_definition[3]
      output == rule_definition[4]
  IN <<PyUpper(from_state), PyUpper(to_state),
       IF _bracketed(input_) THEN PyLower(input_) ELSE input_,
       IF _bracketed(output) THEN PyLower(output) ELSE output>>

_create_rule_of_definition(rule_definition) ==
  RewriteRule(rule_definition[1], rule_definition[2], rule_definition[3],
              rule_definition[4])

\* morphotactics_parser.parse
morphotactics_parse(rule_definitions) ==
  [i \in DOMAIN rule_definitions |->
     _create_rule_of_definition(_get_normalized(rule_definitions[i]))]

\* ------------------------------------------------------------------------
\* morphotactics/model_compile.py
\* ------------------------------------------------------------------------

_SYMBOLS_REGEX ==
  Alt(<<
    \* First inflectional group: \(.+?\[[A-Z\.,:\(\)\'\-\"`\$]+?\]
    Cat(<<Lit(<<"(">>), PlusLazy(Cls(Chars)), Lit(<<"[">>),
          PlusLazy(Cls(AZ \cup {".", ",", ":", "(", ")", "'", "-", "\"",
                                "grave", "$"})),
          Lit(<<"]">>)>>),
    \* Inflectional group boundaries: \)\(\[[A-Z]+?\]
    Cat(<<Lit(<<")", "(">>), BracketedTag>>),
    \* Derivational morphemes: -(?:[^\W\d_]|')+?\[[A-z]+?=[A-z]+?\]
    Cat(<<Lit(<<"-">>), PlusLazy(Alt(<<Cls(Letter), Cls({"'"})>>)),
          DerivationFeature>>),
    \* Inflectional morphemes and features:
    \* \+(?:[^\W\d_]|['\.])*?\[[A-z]+?=[A-z0-9]+?\]
    Cat(<<Lit(<<"+">>), StarLazy(Alt(<<Cls(Letter), Cls({"'", "."})>>)),
          InflectionFeature>>),
    \* Proper noun analysis.
    ProperFeature,
    \* Numbers: \d+(?:\[[A-Z]+?\])?
    Cat(<<PlusGreedy(Cls(Digit)), Opt(BracketedTag)>>),
    \* Parenthesis or decimal point separators: [\(\.,]
    Cls({"(", ".", ","})
  >>)

\* The error _read_rule_set raises for an illformed line of the file at
\* position path of its directory.
CompilerError(what, index, path, error) == <<what, index, path, error>>

\* list(entries.values())
Values(items) == [k \in DOMAIN items |-> items[k][2]]

\* raise MorphotacticsCompilerError for an item that is illformed; the rest
\* is run when it is not.
IllformedOr(message, item, path, raised, rest) ==
  IF raised # NoError
    THEN Raised(CompilerError(message, item[1], path, raised))
    ELSE rest

\* _read_rule_set of _get_lexicon_rules from its k-th entry on: the error of
\* the reader when the file cannot be read as a lexicon, the error raised
\* for the first illformed entry, else the rules parsed from the entries.
RECURSIVE ValidateEntriesFrom(_, _, _)
ValidateEntriesFrom(path, read, k) ==
  IF read.error # NoError THEN read
  ELSE IF k > Len(read.value)
    THEN Returned(lexicon_parse(Values(read.value)))
  ELSE IllformedOr("Lexicon entry is illformed", read.value[k], path,
                   validate(read.value[k][2]),
                   ValidateEntriesFrom(path, read, k + 1))

_read_lexicon_rule_set(path, lines) ==
  ValidateEntriesFrom(path, read_lexicon_entries(lines), 1)

\* A reading that skips the illformed rule definitions of the file.
_read_valid_rule_definitions(path, lines) ==
  LET defs == read_rule_definitions(lines)
      valid(item) == morphotactics_validate(item[2]) = NoError
  IN Returned(morphotactics_parse(Values(SelectSeq(defs, valid))))

\* _read_rule_set of _get_morphotactics_rules from its k-th rule definition
\* on.
RECURSIVE ValidateDefinitionsFrom(_, _, _)
ValidateDefinitionsFrom(path, defs, k) ==
  IF k > Len(defs) THEN Returned(morphotactics_parse(Values(defs)))
  ELSE IllformedOr("Rewrite rule is illformed", defs[k], path,
                   morphotactics_validate(defs[k][2]),
                   ValidateDefinitionsFrom(path, defs, k + 1))

_read_morphotactics_rule_set(path, lines) ==
  ValidateDefinitionsFrom(path, read_rule_definitions(lines), 1)

_key(rule) == <<rule.from_state, rule.to_state, rule.input, rule.output>>

\* collections.OrderedDict(pairs): the keys in the order of their first
\* insertion, each with the value of its last insertion.
OrderedDictValues(keys, values) ==
  LET order == Distinct(keys)
      last(key) == CHOOSE i \in DOMAIN keys :
                     keys[i] = key /\ \A j \in (i + 1)..Len(keys) : keys[j] # key
  IN [k \in DOMAIN order |-> values[last(order[k])]]

\* A de-duplication that removes nothing.
_keep_duplicate_rules(rules) == rules

_remove_duplicate_rules(rules) ==
  LET inverted ==
        OrderedDictValues([i \in DOMAIN rules |-> _key(rules[i])], rules)
      duplicates == Len(rules) - Len(inverted)
  IN IF duplicates # 0 THEN inverted ELSE rules

_symbols_of_input(label) ==
  IF label = EPSILON THEN <<label>>
  ELSE IF "[" \notin Range(label) THEN [i \in DOMAIN label |-> <<label[i]>>]
  ELSE FindAll(_SYMBOLS_REGEX, label)

_symbols_of_output(label) ==
  IF label = EPSILON THEN <<label>>
  ELSE [i \in DOMAIN label |-> <<label[i]>>]

\* start of the Unicode private use area
FIRST_COMPLEX_INDEX == 983040

\* A table that keeps <eps>.
_symbols_table_with_epsilon(rules) ==
  LET fst_symbols ==
        Flatten([i \in DOMAIN rules |->
                   _symbols_of_input(rules[i].input)
                   \o _symbols_of_output(rules[i].output)])
      complex_symbols == {s \in Range(fst_symbols) : Len(s) > 1}
      sorted == PySorted(complex_symbols)
  IN [k \in DOMAIN sorted |-> <<sorted[k], FIRST_COMPLEX_INDEX + k - 1>>]

\* The lines of the complex symbols table, each the pair of a symbol and
\* its index.
_symbols_table_file_content(rules) ==
  LET fst_symbols ==
        Flatten([i \in DOMAIN rules |->
                   _symbols_of_input(rules[i].input)
                   \o _symbols_of_output(rules[i].output)])
      unique_symbols == Range(fst_symbols) \ {EPSILON}
      complex_symbols == {s \in unique_symbols : Len(s) > 1}
      sorted == PySorted(complex_symbols)
  IN [k \in DOMAIN sorted |-> <<sorted[k], FIRST_COMPLEX_INDEX + k - 1>>]

\* ------------------------------------------------------------------------
\* _text_fst_file_content: the state of the generator is the dictionary
\* index_of and the counter _Local.state_count.
\* ------------------------------------------------------------------------

\* A counter that skips an index.
_skip_state_index(state_count) == state_count + 2

_new_state_index(state_count) == state_count + 1

\* A lookup that gives a new name the next index and leaves the count of
\* the states as it is.
IndexOfUncounted(index_of, state_count, name) ==
  IF name \in DOMAIN index_of
    THEN [index_of |-> index_of, state_count |-> state_count,
          index |-> index_of[name]]
    ELSE LET new == _new_state_index(state_count) IN
         [index_of |-> [n \in DOMAIN index_of \cup {name} |->
                          IF n = name THEN new ELSE index_of[n]],
          state_count |-> state_count,
          index |-> new]

\* index_of[name] of the defaultdict: the index of a name it holds, a new
\* index for a name it does not hold yet.
IndexOf(index_of, state_count, name) ==
  IF name \in DOMAIN index_of
    THEN [index_of |-> index_of, state_count |-> state_count,
          index |-> index_of[name]]
    ELSE LET new == _new_state_index(state_count) IN
         [index_of |-> [n \in DOMAIN index_of \cup {name} |->
                          IF n = name THEN new ELSE index_of[n]],
          state_count |-> new,
          index |-> new]

\* No padding.
NotPadded(symbols, other) == symbols

\* while len(symbols) < len(other): symbols.append(epsilon)
PaddedTo(symbols, other) ==
  IF Len(symbols) < Len(other)
    THEN symbols \o [i \in 1..(Len(other) - Len(symbols)) |-> EPSILON]
    ELSE symbols

\* A line of the text FST: an arc, or the index of the accept state.
arc(from_, to, input_, output) == <<from_, to, input_, output>>

AcceptLine(index) == <<index>>

\* The loop over zip(input_symbols, output_symbols) from its k-th pair on:
\* the arcs it yields, and the state the last of them leaves it in.
RECURSIVE ChainFrom(_, _, _, _, _)
ChainFrom(from_, state_count, input_symbols, output_symbols, k) ==
  IF k > Min(Len(input_symbols), Len(output_symbols))
    THEN [lines |-> <<>>, from_ |-> from_, state_count |-> state_count]
    ELSE LET to == _new_state_index(state_count)
             rest == ChainFrom(to, to, input_symbols, output_symbols, k + 1)
         IN [lines |-> <<arc(from_, to, input_symbols[k], output_symbols[k])>>
                         \o rest.lines,
             from_ |-> rest.from_, state_count |-> rest.state_count]

\* One turn of the loop over the rules: the lines it yields and the state
\* of the generator after it.
RuleLines(index_of, state_count, rule) ==
  LET input_symbols ==
        PaddedTo(_symbols_of_input(rule.input), _symbols_of_output(rule.output))
      output_symbols ==
        PaddedTo(_symbols_of_output(rule.output), input_symbols)
      from_ == IndexOf(index_of, state_count, rule.from_state)
      chain == ChainFrom(from_.index, from_.state_count, input_symbols,
                         output_symbols, 1)
      to == IndexOf(from_.index_of, chain.state_count, rule.to_state)
  IN [lines |-> Append(chain.lines, arc(chain.from_, to.index, EPSILON, EPSILON)),
      index_of |-> to.index_of, state_count |-> to.state_count]

\* ------------------------------------------------------------------------
\* The state of the program
\* ------------------------------------------------------------------------

VARIABLES
  pc,                 \* the statement the run is at
  \* lexicon_validator.validate
  entry,              \* the lexicon entry under validation
  verdict,            \* the error validate raised, or NoError
  \* lexicon_parser.parse
  parse_input,        \* the entries parse is called with
  entries,            \* the list parse rewrites in place
  rule_set,           \* the rule set parse returns
  \* model_compile.main
  lexicon_dir,        \* the .tsv files of --lexicon_dir, by sorted path
  morphotactics_dir,  \* the .txt files of --morphotactics_dir, by sorted path
  rule_sets,          \* the rule sets read so far by the running getter
  lexicon,            \* the lexicon rule set
  morphotactics,      \* the morphotactics rule set
  merged,             \* the merged rule set
  output_dir,         \* the names of the files of --output_dir
  symbols_file,       \* the lines of complex_symbols.syms
  fst_file,           \* the lines of morphotactics.txt
  index_of,           \* index_of of _text_fst_file_content
  state_count,        \* _Local.state_count of _text_fst_file_content
  rule_index,         \* the position of its loop over the rules
  error,              \* the error that ended the run, or NoError
  \* turkish_morphology: analyze, decompose, validate, pretty_print, generate
  ANALYZER,           \* fst.ANALYZER, the analyzer FST generate uses
  _MODEL,             \* analyze._MODEL, the analyzer FST analyze uses
  log,                \* the calls made, each on a result of the one before
  \* fst.extract_parses and analyze._extract_analyses
  walk_fst,           \* the FST the generator walks
  generator,          \* which of the two generators runs
  label_type,         \* the tape its parses are read from
  frames,             \* the generator's frames, the innermost last
  parses              \* the parses yielded so far

vars ==
  <<pc, entry, verdict, parse_input, entries, rule_set, lexicon_dir,
    morphotactics_dir, rule_sets, lexicon, morphotactics, merged, output_dir,
    symbols_file, fst_file, index_of, state_count, rule_index, error,
    ANALYZER, _MODEL, log, walk_fst, generator, label_type,
    frames, parses>>

validator_vars == <<entry, verdict>>

parser_vars == <<parse_input, entries, rule_set>>

compiler_vars ==
  <<lexicon_dir, morphotactics_dir, rule_sets, lexicon, morphotactics, merged,
    output_dir, symbols_file, fst_file, index_of, state_count, rule_index,
    error>>

library_vars == <<ANALYZER, _MODEL, log>>

walk_vars == <<walk_fst, generator, label_type, frames, parses>>

ValidatorIdle == entry = <<>> /\ verdict = NoError

ParserIdle == parse_input = <<>> /\ entries = <<>> /\ rule_set = <<>>

CompilerIdle ==
  /\ lexicon_dir = <<>> /\ morphotactics_dir = <<>> /\ rule_sets = <<>>
  /\ lexicon = <<>> /\ morphotactics = <<>> /\ merged = <<>>
  /\ output_dir = {} /\ symbols_file = <<>> /\ fst_file = <<>>
  /\ index_of = <<>> /\ state_count = 0 /\ rule_index = 0
  /\ error = NoError

LibraryIdle == ANALYZER = <<>> /\ _MODEL = <<>> /\ log = <<>>

WalkIdle ==
  /\ walk_fst = <<>> /\ generator = <<>> /\ label_type = <<>>
  /\ frames = <<>> /\ parses = <<>>

\* ------------------------------------------------------------------------
\* Inputs
\* ------------------------------------------------------------------------

\* the fields a lexicon entry may lack
MaxMissing == 1

\* the entries of one call of lexicon_parser.parse
MaxEntries == 2

\* the files of an input directory
MaxFiles == 1

LexiconEntry(tag, root, morphophonemics, features, is_compound) ==
  [f \in _REQUIRED_FIELDS |->
     CASE f = <<"t", "a", "g">> -> tag
       [] f = <<"r", "o", "o", "t">> -> root
       [] f = <<"m", "o", "r", "p", "h", "o", "p", "h", "o", "n", "e", "m", "i", "c", "s">> -> morphophonemics
       [] f = <<"f", "e", "a", "t", "u", "r", "e", "s">> -> features
       [] f = <<"i", "s", "_", "c", "o", "m", "p", "o", "u", "n", "d">> -> is_compound]

Without(e, fields) == [f \in DOMAIN e \ fields |-> e[f]]

SeqsUpTo(S, n) == UNION {[1..k -> S] : k \in 0..n}

\* The rows validate is run on: every combination of these values, and
\* each of them without up to MaxMissing of its fields.
ValidatorInputs ==
  {Without(e, fields) :
     e \in {LexiconEntry(tag, root, morphophonemics, features, is_compound) :
              tag \in {<<"n", "n">>, <<"i", "n">>, <<"j", "j">>, <<"z", "z">>, <<"n", " ", "n">>, <<>>},
              root \in {<<"k", "a", "r">>, <<>>},
              morphophonemics \in {<<"~">>, <<"k", "a", "r">>, <<>>},
              features \in {<<"~">>, <<"+", "[", "C", "o", "m", "p", "l", "e", "m", "e", "n", "t", "T", "y", "p", "e", "=", "C", "G", "e", "n", "]">>,
                            <<"+", "[", "C", "o", "m", "p", "l", "e", "m", "e", "n", "t", "T", "y", "p", "e", "=", "G", "e", "n", "]">>, <<"+", "[", "E", "m", "p", "h", "a", "s", "i", "s", "=", "T", "r", "u", "e", "]">>,
                            <<"+", "[", "E", "m", "p", "h", "a", "s", "i", "s", "]">>, <<"+", "[", "A", "=", "b", "]", " ", "+", "[", "C", "=", "d", "]">>},
              is_compound \in {<<"t", "r", "u", "e">>, <<"f", "a", "l", "s", "e">>, <<"m", "a", "y", "b", "e">>}},
     fields \in {m \in SUBSET _REQUIRED_FIELDS : Cardinality(m) <= MaxMissing}}

\* The entries parse is run on; _read_rule_set validates each entry before
\* it calls parse.
ParserInputs ==
  SeqsUpTo(
    {e \in {LexiconEntry(<<"n", "n">>, <<"k", "a^", "r">>, <<"~">>, <<"~">>, <<"f", "a", "l", "s", "e">>),
             LexiconEntry(<<"n", "n">>, <<"k", "a", "r">>, <<"~">>, <<"~">>, <<"f", "a", "l", "s", "e">>),
             LexiconEntry(<<"N", "N">>, <<"A^", "l", "i">>, <<"a^", "l", "i">>, <<"~">>, <<"t", "r", "u", "e">>),
             LexiconEntry(<<"n", "n", "-", "a", "b", "b", "r">>, <<"k", "a^">>, <<"~">>, <<"~">>, <<"f", "a", "l", "s", "e">>),
             LexiconEntry(<<"n", "n", "p">>, <<"k", "a^", "z", "I", "m">>, <<"~">>, <<"~">>, <<"f", "a", "l", "s", "e">>),
             LexiconEntry(<<"n", "n", "p">>, <<"a^", "d", "e", "m">>, <<"~">>, <<"~">>, <<"f", "a", "l", "s", "e">>),
             LexiconEntry(<<"n", "n", "p">>, <<"i", "s", "t", "a", "n", "b", "u", "l">>, <<"~">>, <<"~">>, <<"f", "a", "l", "s", "e">>),
             LexiconEntry(<<"i", "n">>, <<"I", "l", "i", "k">>, <<"~">>, <<"+", "[", "C", "o", "m", "p", "l", "e", "m", "e", "n", "t", "T", "y", "p", "e", "=", "C", "G", "e", "n", "]">>, <<"f", "a", "l", "s", "e">>),
             LexiconEntry(<<"r", "b", "-", "t", "e", "m", "p">>, <<"y", "a", "r", "I", "n">>, <<"~">>, <<"+", "[", "T", "e", "m", "p", "o", "r", "a", "l", "=", "T", "r", "u", "e", "]">>, <<"f", "a", "l", "s", "e">>),
             LexiconEntry(<<"j", "j">>, <<"i", "y", "i">>, <<"~">>, <<"+", "[", "E", "m", "p", "h", "a", "s", "i", "s", "=", "T", "r", "u", "e", "]">>, <<"f", "a", "l", "s", "e">>),
             LexiconEntry(<<"j", "j", "n">>, <<"h", "a^", "l">>, <<"h", "a^", "l", "?">>, <<"+", "[", "E", "m", "p", "h", "a", "s", "i", "s", "=", "T", "r", "u", "e", "]">>, <<"f", "a", "l", "s", "e">>),
             LexiconEntry(<<"e", "x">>, <<"v", "a", "r">>, <<"~">>, <<"~">>, <<"f", "a", "l", "s", "e">>),
             LexiconEntry(<<"c", "d", "-", "d", "i", "s", "t">>, <<"b", "i", "r", "e", "r">>, <<"~">>, <<"~">>, <<"f", "a", "l", "s", "e">>),
             LexiconEntry(<<"p", "f", "x">>, <<"g", "a", "y", "r", "i">>, <<"~">>, <<"~">>, <<"f", "a", "l", "s", "e">>)}
       : validate(e) = NoError},
    MaxEntries)

LexiconHeader == <<"t", "a", "g", "\t", "r", "o", "o", "t", "\t", "m", "o", "r", "p", "h", "o", "p", "h", "o", "n", "e", "m", "i", "c", "s", "\t", "f", "e", "a", "t", "u", "r", "e", "s", "\t", "i", "s", "_", "c", "o", "m", "p", "o", "u", "n", "d">>

\* The lexicon files, each the tuple of its lines.
LexiconFiles ==
  {<<LexiconHeader, <<"n", "n", "\t", "k", "a^", "r", "\t", "~", "\t", "~", "\t", "f", "a", "l", "s", "e">>, <<"n", "n", "\t", "k", "a", "r", "\t", "~", "\t", "~", "\t", "f", "a", "l", "s", "e">>>>,
   <<LexiconHeader, <<>>, <<"n", "n", "p", "\t", "a", "l", "i", "\t", "~", "\t", "~", "\t", "f", "a", "l", "s", "e">>, <<"n", "n", "\t", "k", "a", "r", "\t", "~", "\t", "~", "\t", "f", "a", "l", "s", "e">>>>,
   <<LexiconHeader, <<"c", "d", "\t", "1", "0", "\t", "~", "\t", "~", "\t", "f", "a", "l", "s", "e">>>>,
   <<LexiconHeader, <<"n", "n", "\t", "k", "a", "r", "\t", "~", "\t", "~", "\t", "f", "a", "l", "s", "e">>, <<"z", "z", "\t", "k", "a", "r", "\t", "~", "\t", "~", "\t", "f", "a", "l", "s", "e">>>>,
   <<LexiconHeader, <<" ", "\t", " ">>>>,
   <<LexiconHeader>>,
   <<>>}

\* The morphotactics files, each the tuple of its lines.
MorphotacticsFiles ==
  {<<<<"#", " ", "n", "o", "u", "n", "s">>, <<"n", "n", " ", "n", "n", "-", "p", "l", " ", "+", "l", "A", "r", "[", "P", "e", "r", "s", "o", "n", "N", "u", "m", "b", "e", "r", "=", "A", "3", "p", "l", "]", " ", "+", "l", "A", "r">>,
     <<"N", "N", "-", "P", "L", " ", "A", "C", "C", "E", "P", "T", " ", "<", "e", "p", "s", ">", " ", "<", "e", "p", "s", ">">>>>,
   <<<<"N", "N", " ", "J", "J", " ", ")", "(", "[", "J", "J", "]", "-", "c", "A", "[", "D", "e", "r", "i", "v", "a", "t", "i", "o", "n", "=", "L", "y", "]", " ", "+", "c", "A">>, <<>>, <<"J", "J", " ", "A", "C", "C", "E", "P", "T", " ", "<", "e", "p", "s", ">", " ", "<", "e", "p", "s", ">">>,
     <<"j", "j", " ", "a", "c", "c", "e", "p", "t", " ", "<", "E", "P", "S", ">", " ", "<", "E", "P", "S", ">">>>>,
   <<<<"C", "D", " ", "N", "N", " ", "+", "[", "P", "e", "r", "s", "o", "n", "N", "u", "m", "b", "e", "r", "=", "A", "3", "s", "g", "]", "+", "[", "P", "o", "s", "s", "e", "s", "s", "i", "v", "e", "=", "P", "n", "o", "n", "]", " ", "'">>, <<"S", "T", "A", "R", "T", " ", "C", "D", " ", "1", " ", "1">>>>,
   <<<<"N", "N", " ", "A", "C", "C", "E", "P", "T", " ", "<", "e", "p", "s", ">", " ", "<", "e", "p", "s", ">">>, <<"N", "N", " ", "A", "C", "C", "E", "P", "T", " ", "<", "e", "p", "s", ">">>>>,
   <<<<"J", "J", " ", "A", "C", "C", "E", "P", "T", " ", "<", "e", "p", "s", ">", " ", "<", "e", "p", "s", ">">>, <<"N", "N", " ", "J", "J", " ", "(", "[", "J", "J", "]", "-", "c", "A", "[", "D", "e", "r", "i", "v", "a", "t", "i", "o", "n", "=", "L", "y", "]", " ", "+", "c", "A">>,
     <<"j", "j", " ", "a", "c", "c", "e", "p", "t", " ", "<", "E", "P", "S", ">", " ", "<", "E", "P", "S", ">">>>>,
   <<<<"#", " ", "n", "o", " ", "r", "u", "l", "e">>>>,
   <<<<" ", " ", "#", " ", "s", "t", "a", "t", "e", "s">>, <<"\t">>, <<"\t", "#", " ", "m", "o", "r", "e">>, <<"N", "N", " ", "A", "C", "C", "E", "P", "T", " ", "<", "e", "p", "s", ">", " ", "<", "e", "p", "s", ">">>>>}

\* ------------------------------------------------------------------------
\* lexicon_validator.validate on one row
\* ------------------------------------------------------------------------

InitValidate ==
  /\ pc = "validate"
  /\ entry \in ValidatorInputs
  /\ verdict = NoError
  /\ ParserIdle
  /\ CompilerIdle
  /\ LibraryIdle
  /\ WalkIdle

Validate ==
  /\ pc = "validate"
  /\ verdict' = validate(entry)
  /\ pc' = "validated"
  /\ UNCHANGED <<entry, parser_vars, compiler_vars, library_vars, walk_vars>>

SpecValidate == InitValidate /\ [][Validate]_vars

\* ------------------------------------------------------------------------
\* lexicon_parser.parse on the validated entries of one file
\* ------------------------------------------------------------------------

InitParse ==
  /\ pc = "normalize"
  /\ parse_input \in ParserInputs
  /\ entries = parse_input
  /\ rule_set = <<>>
  /\ ValidatorIdle
  /\ CompilerIdle
  /\ LibraryIdle
  /\ WalkIdle

Normalize ==
  /\ pc = "normalize"
  /\ entries' = _normalize(entries)
  /\ pc' = "cross_classify"
  /\ UNCHANGED <<parse_input, rule_set, validator_vars, compiler_vars, library_vars,
                 walk_vars>>

CrossClassify ==
  /\ pc = "cross_classify"
  /\ entries' = _cross_classify(entries)
  /\ pc' = "create_rules"
  /\ UNCHANGED <<parse_input, rule_set, validator_vars, compiler_vars, library_vars,
                 walk_vars>>

CreateRules ==
  /\ pc = "create_rules"
  /\ rule_set' = _rules_of(entries)
  /\ pc' = "parsed"
  /\ UNCHANGED <<parse_input, entries, validator_vars, compiler_vars, library_vars,
                 walk_vars>>

NextParse == Normalize \/ CrossClassify \/ CreateRules

SpecParse == InitParse /\ [][NextParse]_vars

\* ------------------------------------------------------------------------
\* model_compile.main
\* ------------------------------------------------------------------------

SYMBOLS_FILE_NAME == "complex_symbols.syms"

FST_FILE_NAME == "morphotactics.txt"

Init ==
  /\ pc = "get_lexicon_rules"
  /\ lexicon_dir \in SeqsUpTo(LexiconFiles, MaxFiles)
  /\ morphotactics_dir \in SeqsUpTo(MorphotacticsFiles, MaxFiles)
  /\ rule_sets = <<>>
  /\ lexicon = <<>>
  /\ morphotactics = <<>>
  /\ merged = <<>>
  /\ output_dir = {}
  /\ symbols_file = <<>>
  /\ fst_file = <<>>
  /\ index_of = <<>>
  /\ state_count = 0
  /\ rule_index = 0
  /\ error = NoError
  /\ ValidatorIdle
  /\ ParserIdle
  /\ LibraryIdle
  /\ WalkIdle

\* The run ends with the error raised.
Fail(raised) ==
  /\ error' = raised
  /\ pc' = "failed"

\* rule_sets = [_read_rule_set(p) for p in paths] of _get_lexicon_rules, one
\* path at a time
ReadLexiconRuleSet ==
  /\ pc = "get_lexicon_rules"
  /\ Len(rule_sets) < Len(lexicon_dir)
  /\ \E read \in {_read_lexicon_rule_set(Len(rule_sets) + 1,
                                          lexicon_dir[Len(rule_sets) + 1])} :
       IF read.error # NoError
         THEN Fail(read.error) /\ UNCHANGED rule_sets
         ELSE /\ rule_sets' = Append(rule_sets, read.value)
              /\ UNCHANGED <<pc, error>>
  /\ UNCHANGED <<lexicon_dir, morphotactics_dir, lexicon, morphotactics,
                 merged, output_dir, symbols_file, fst_file, index_of,
                 state_count, rule_index, validator_vars, parser_vars, library_vars,
                 walk_vars>>

\* the rest of _get_lexicon_rules
GetLexiconRules ==
  /\ pc = "get_lexicon_rules"
  /\ Len(rule_sets) = Len(lexicon_dir)
  /\ LET rules == Flatten(rule_sets) IN
     IF rules = <<>>
       THEN /\ Fail(Error("no valid lexicon rewrite rules found", <<>>))
            /\ UNCHANGED <<lexicon, rule_sets>>
       ELSE /\ lexicon' = rules
            /\ rule_sets' = <<>>
            /\ pc' = "get_morphotactics_rules"
            /\ UNCHANGED error
  /\ UNCHANGED <<lexicon_dir, morphotactics_dir, morphotactics, merged,
                 output_dir, symbols_file, fst_file, index_of, state_count,
                 rule_index, validator_vars, parser_vars, library_vars,
                 walk_vars>>

\* rule_sets = [_read_rule_set(p) for p in paths] of
\* _get_morphotactics_rules, one path at a time
ReadMorphotacticsRuleSet ==
  /\ pc = "get_morphotactics_rules"
  /\ Len(rule_sets) < Len(morphotactics_dir)
  /\ \E read \in {_read_morphotactics_rule_set(
                      Len(rule_sets) + 1,
                      morphotactics_dir[Len(rule_sets) + 1])} :
       IF read.error # NoError
         THEN Fail(read.error) /\ UNCHANGED rule_sets
         ELSE /\ rule_sets' = Append(rule_sets, read.value)
              /\ UNCHANGED <<pc, error>>
  /\ UNCHANGED <<lexicon_dir, morphotactics_dir, lexicon, morphotactics,
                 merged, output_dir, symbols_file, fst_file, index_of,
                 state_count, rule_index, validator_vars, parser_vars, library_vars,
                 walk_vars>>

\* the rest of _get_morphotactics_rules
GetMorphotacticsRules ==
  /\ pc = "get_morphotactics_rules"
  /\ Len(rule_sets) = Len(morphotactics_dir)
  /\ LET rules == Flatten(rule_sets) IN
     IF rules = <<>>
       THEN /\ Fail(Error("no valid morphotactics rewrite rules found", <<>>))
            /\ UNCHANGED <<morphotactics, rule_sets>>
       ELSE /\ morphotactics' = rules
            /\ rule_sets' = <<>>
            /\ pc' = "merge"
            /\ UNCHANGED error
  /\ UNCHANGED <<lexicon_dir, morphotactics_dir, lexicon, merged, output_dir,
                 symbols_file, fst_file, index_of, state_count, rule_index,
                 validator_vars, parser_vars, library_vars, walk_vars>>

\* merged.rule.extend(lexicon.rule); merged.rule.extend(morphotactics.rule);
\* _remove_duplicate_rules(merged)
RemoveDuplicateRules ==
  /\ pc = "merge"
  /\ merged' = _remove_duplicate_rules(lexicon \o morphotactics)
  /\ pc' = "write_symbols"
  /\ UNCHANGED <<lexicon_dir, morphotactics_dir, rule_sets, lexicon,
                 morphotactics, output_dir, symbols_file, fst_file, index_of,
                 state_count, rule_index, error, validator_vars, parser_vars, library_vars,
                 walk_vars>>

\* _write_file(symbols_path, symbols_content)
WriteSymbolsFile ==
  /\ pc = "write_symbols"
  /\ output_dir' = output_dir \cup {SYMBOLS_FILE_NAME}
  /\ symbols_file' = _symbols_table_file_content(merged)
  /\ pc' = "write_fst"
  /\ UNCHANGED <<lexicon_dir, morphotactics_dir, rule_sets, lexicon,
                 morphotactics, merged, fst_file, index_of, state_count,
                 rule_index, error, validator_vars, parser_vars, library_vars,
                 walk_vars>>

\* _write_file(fst_path, fst_content) opens the file, and the generator
\* runs up to its loop over the rules
OpenTextFst ==
  /\ pc = "write_fst"
  /\ output_dir' = output_dir \cup {FST_FILE_NAME}
  /\ fst_file' = <<>>
  /\ state_count' = 0
  /\ index_of' = [n \in {START_STATE} |-> 0]
  /\ rule_index' = 1
  /\ pc' = "yield_arcs"
  /\ UNCHANGED <<lexicon_dir, morphotactics_dir, rule_sets, lexicon,
                 morphotactics, merged, symbols_file, error, validator_vars,
                 parser_vars, library_vars, walk_vars>>

\* one turn of the loop over the rules, its lines written
YieldRuleArcs ==
  /\ pc = "yield_arcs"
  /\ rule_index <= Len(merged)
  /\ \E turn \in {RuleLines(index_of, state_count, merged[rule_index])} :
       /\ fst_file' = fst_file \o turn.lines
       /\ index_of' = turn.index_of
       /\ state_count' = turn.state_count
  /\ rule_index' = rule_index + 1
  /\ UNCHANGED <<pc, lexicon_dir, morphotactics_dir, rule_sets, lexicon,
                 morphotactics, merged, output_dir, symbols_file, error,
                 validator_vars, parser_vars, library_vars, walk_vars>>

\* the last line, the index of the accept state, written
YieldAcceptLine ==
  /\ pc = "yield_arcs"
  /\ rule_index > Len(merged)
  /\ LET accept == IndexOf(index_of, state_count, ACCEPT_STATE) IN
     /\ fst_file' = Append(fst_file, AcceptLine(accept.index))
     /\ index_of' = accept.index_of
     /\ state_count' = accept.state_count
  /\ pc' = "done"
  /\ UNCHANGED <<lexicon_dir, morphotactics_dir, rule_sets, lexicon,
                 morphotactics, merged, output_dir, symbols_file, rule_index,
                 error, validator_vars, parser_vars, library_vars, walk_vars>>

Next ==
  \/ ReadLexiconRuleSet
  \/ GetLexiconRules
  \/ ReadMorphotacticsRuleSet
  \/ GetMorphotacticsRules
  \/ RemoveDuplicateRules
  \/ WriteSymbolsFile
  \/ OpenTextFst
  \/ YieldRuleArcs
  \/ YieldAcceptLine

Spec == Init /\ [][Next]_vars

\* ------------------------------------------------------------------------
\* Properties of model_compile.main
\* ------------------------------------------------------------------------

\* Some entry of some lexicon file fails validation.
InvalidLexiconEntry ==
  \E p \in DOMAIN lexicon_dir :
    LET read == read_lexicon_entries(lexicon_dir[p]) IN
    /\ read.error = NoError
    /\ \E k \in DOMAIN read.value : validate(read.value[k][2]) # NoError

\* Some rule definition of some morphotactics file fails validation.
InvalidMorphotacticsRule ==
  \E p \in DOMAIN morphotactics_dir :
    LET defs == read_rule_definitions(morphotactics_dir[p]) IN
    \E k \in DOMAIN defs : morphotactics_validate(defs[k][2]) # NoError

\* Every lexicon entry is valid, and none of them makes a rewrite rule.
LexiconYieldsNoRules ==
  /\ ~InvalidLexiconEntry
  /\ \A p \in DOMAIN lexicon_dir :
       LET read == read_lexicon_entries(lexicon_dir[p]) IN
       /\ read.error = NoError
       /\ lexicon_parse(Values(read.value)) = <<>>

\* Every rule definition is valid, and there is none.
MorphotacticsYieldsNoRules ==
  /\ ~InvalidMorphotacticsRule
  /\ \A p \in DOMAIN morphotactics_dir :
       read_rule_definitions(morphotactics_dir[p]) = <<>>

\* C1: when a lexicon entry or a morphotactics rule fails validation, or a
\* source yields no rewrite rule, the run never gets past the reading of the
\* rules, where it can only end in failure, and neither complex_symbols.syms
\* nor morphotactics.txt is written.  Stated from the other side: in a run
\* that has written a file or has got past the reading, every entry and
\* every rule is valid and each source yields rules.
C1_FailureIsAtomic ==
  (\/ output_dir # {}
   \/ pc \notin {"get_lexicon_rules", "get_morphotactics_rules", "failed"})
  => ~(\/ InvalidLexiconEntry
       \/ InvalidMorphotacticsRule
       \/ LexiconYieldsNoRules
       \/ MorphotacticsYieldsNoRules)

\* The lexicon was read into rules, a morphotactics rule then failed
\* validation, and the run has ended in failure.
C1_Witness ==
  /\ pc = "failed"
  /\ lexicon # <<>>
  /\ InvalidMorphotacticsRule
  /\ error[1] = "Rewrite rule is illformed"
  /\ output_dir = {}

Max(a, b) == IF a >= b THEN a ELSE b

NonEpsilon(symbols) ==
  LET not_epsilon(s) == s # <<"<", "e", "p", "s", ">">> IN SelectSeq(symbols, not_epsilon)

\* The state indices on the lines of a text FST.
IndicesOn(lines) ==
  UNION {IF Len(lines[k]) = 4 THEN {lines[k][1], lines[k][2]}
         ELSE {lines[k][1]} : k \in DOMAIN lines}

\* C2: the lines a rule adds to the text FST are a chain of L + 1 arcs,
\* L the larger of the numbers of its input and of its output symbols: it
\* starts at the index of the rule's from-state, its i-th arc carries the
\* i-th input and the i-th output symbol, <eps> where the shorter sequence
\* has ended, and goes to an index no line and no state name has had yet;
\* its last arc is <eps>/<eps> and goes to the index of the rule's to-state.
\* The labels other than <eps> along the chain are the rule's symbols.
C2_RuleIsEmittedAsChain ==
  [][(pc = "yield_arcs" /\ rule_index' = rule_index + 1) =>
       LET rule == merged[rule_index]
           ins == _symbols_of_input(rule.input)
           outs == _symbols_of_output(rule.output)
           L == Max(Len(ins), Len(outs))
           new == SubSeq(fst_file', Len(fst_file) + 1, Len(fst_file'))
           padded(s) == [i \in 1..L |-> IF i <= Len(s) THEN s[i] ELSE <<"<", "e", "p", "s", ">">>]
           known == IndicesOn(fst_file)
                    \cup {index_of[n] : n \in DOMAIN index_of}
                    \cup {index_of'[rule.from_state]}
       IN /\ Len(new) = L + 1
          /\ \A i \in 1..(L + 1) : Len(new[i]) = 4
          /\ new[1][1] = index_of'[rule.from_state]
          /\ \A i \in 1..L :
               /\ new[i][3] = padded(ins)[i]
               /\ new[i][4] = padded(outs)[i]
               /\ new[i][2] \notin known
               /\ \A j \in 1..(i - 1) : new[j][2] # new[i][2]
               /\ new[i + 1][1] = new[i][2]
          /\ new[L + 1][2] = index_of'[rule.to_state]
          /\ new[L + 1][3] = <<"<", "e", "p", "s", ">">>
          /\ new[L + 1][4] = <<"<", "e", "p", "s", ">">>
          /\ NonEpsilon([i \in 1..(L + 1) |-> new[i][3]]) = NonEpsilon(ins)
          /\ NonEpsilon([i \in 1..(L + 1) |-> new[i][4]]) = NonEpsilon(outs)
    ]_vars

\* Rules have been emitted whose input had to be padded, and whose output.
C2_Witness ==
  /\ pc = "yield_arcs"
  /\ rule_index > 2
  /\ \E k \in 1..(rule_index - 1) :
       Len(_symbols_of_input(merged[k].input))
         < Len(_symbols_of_output(merged[k].output))
  /\ \E k \in 1..(rule_index - 1) :
       Len(_symbols_of_input(merged[k].input))
         > Len(_symbols_of_output(merged[k].output))
  /\ \E k \in DOMAIN fst_file :
       fst_file[k][3] = <<"<", "e", "p", "s", ">">> /\ fst_file[k][4] # <<"<", "e", "p", "s", ">">>
  /\ \E k \in DOMAIN fst_file :
       fst_file[k][3] # <<"<", "e", "p", "s", ">">> /\ fst_file[k][4] = <<"<", "e", "p", "s", ">">>

\* The state names the generator has looked up, in the order of its lookups.
Referenced ==
  Flatten([k \in 1..(rule_index - 1) |->
             <<merged[k].from_state, merged[k].to_state>>])
  \o (IF pc = "done" THEN <<<<"A", "C", "C", "E", "P", "T">>>> ELSE <<>>)

FirstReference(referenced, name) ==
  CHOOSE k \in DOMAIN referenced :
    referenced[k] = name /\ \A j \in 1..(k - 1) : referenced[j] # name

\* C3: once a rule is emitted, the state indices on the lines of the text
\* FST are 0, 1, ..., N-1 without a gap; START has index 0; the names with
\* an index are the names referenced so far, no two share an index, and a
\* name referenced for the first time before another has the smaller index.
C3_StateIndicesAreDense ==
  (pc \in {"yield_arcs", "done"} /\ rule_index > 1) =>
    LET used == IndicesOn(fst_file)
        names == DOMAIN index_of
        referenced == Referenced
    IN /\ used = 0..(Cardinality(used) - 1)
       /\ <<"S", "T", "A", "R", "T">> \in names
       /\ index_of[<<"S", "T", "A", "R", "T">>] = 0
       /\ names = Range(referenced) \cup {<<"S", "T", "A", "R", "T">>}
       /\ \A n \in names : index_of[n] \in used
       /\ \A n, m \in names : n # m => index_of[n] # index_of[m]
       /\ \A n, m \in names \ {<<"S", "T", "A", "R", "T">>} :
            FirstReference(referenced, n) < FirstReference(referenced, m)
              => index_of[n] < index_of[m]

\* The run is over, no rule names ACCEPT, and the accept line has given it
\* the last index.
C3_Witness ==
  /\ pc = "done"
  /\ Cardinality(DOMAIN index_of) >= 4
  /\ \A k \in DOMAIN merged : merged[k].to_state # <<"A", "C", "C", "E", "P", "T">>
  /\ fst_file[Len(fst_file)] = <<state_count>>
  /\ index_of[<<"A", "C", "C", "E", "P", "T">>] = state_count

\* The symbols of the labels of the merged rules.
SymbolsOfRules ==
  UNION {Range(_symbols_of_input(merged[k].input))
         \cup Range(_symbols_of_output(merged[k].output)) : k \in DOMAIN merged}

\* C4: the lines of the complex symbols table hold exactly the symbols of
\* the rules that are longer than one character and are not <eps>, each
\* once, in ascending order; the first index is 983040 and each next index
\* is one more than the one before.
C4_ComplexSymbolsTable ==
  (SYMBOLS_FILE_NAME \in output_dir) =>
    LET expected == {s \in SymbolsOfRules : Len(s) > 1 /\ s # <<"<", "e", "p", "s", ">">>}
        n == Len(symbols_file)
    IN /\ {symbols_file[k][1] : k \in 1..n} = expected
       /\ n = Cardinality(expected)
       /\ \A k \in 1..(n - 1) : PyLess(symbols_file[k][1], symbols_file[k + 1][1])
       /\ n > 0 => symbols_file[1][2] = 983040
       /\ \A k \in 1..(n - 1) : symbols_file[k + 1][2] = symbols_file[k][2] + 1
       /\ \A j, k \in 1..n : j # k => symbols_file[j][2] # symbols_file[k][2]

\* The table is written from rules that also hold <eps> and symbols of
\* one character.
C4_Witness ==
  /\ SYMBOLS_FILE_NAME \in output_dir
  /\ Len(symbols_file) >= 3
  /\ <<"<", "e", "p", "s", ">">> \in SymbolsOfRules
  /\ \E s \in SymbolsOfRules : Len(s) = 1

KeyOf(rule) == <<rule.from_state, rule.to_state, rule.input, rule.output>>

\* C5: after _remove_duplicate_rules no two rules of the merged list have
\* the same (from_state, to_state, input, output), and the 4-tuples of the
\* list are those of the lexicon and morphotactics rules it was made from.
C5_NoDuplicateRules ==
  (pc \in {"write_symbols", "write_fst", "yield_arcs", "done"}) =>
    LET before == lexicon \o morphotactics IN
    /\ \A i, j \in DOMAIN merged :
         i # j => KeyOf(merged[i]) # KeyOf(merged[j])
    /\ {KeyOf(merged[i]) : i \in DOMAIN merged}
         = {KeyOf(before[i]) : i \in DOMAIN before}

\* Duplicates were removed from the merged list.
C5_Witness ==
  /\ pc = "write_symbols"
  /\ Len(merged) < Len(lexicon) + Len(morphotactics)
  /\ Len(merged) >= 2

\* ------------------------------------------------------------------------
\* Properties of lexicon_parser.parse
\* ------------------------------------------------------------------------

HasCircumflexLetter(string) == Range(string) \cap {"a^", "i^", "u^"} # {}

\* The entry with each circumflex letter of its root and morphophonemics
\* replaced by the plain letter.
PlainVariant(e) ==
  LET plain(c) == CASE c = "a^" -> "a" [] c = "i^" -> "i" [] c = "u^" -> "u"
                    [] OTHER -> c
  IN [f \in DOMAIN e |->
        IF f \in {<<"r", "o", "o", "t">>, <<"m", "o", "r", "p", "h", "o", "p", "h", "o", "n", "e", "m", "i", "c", "s">>}
          THEN [i \in DOMAIN e[f] |-> plain(e[f][i])] ELSE e[f]]

\* The rule of a lexicon entry under its own tag.
RuleOfEntry(e) == _create_rewrite_rule(_normalize_entry(e))

\* C6: for every entry of an FST state tag whose root has a circumflex
\* letter, the parsed rule set holds the rule of the entry and the rule of
\* its plain variant, whatever the formatting of the tag.
C6_BothVariantsHaveRules ==
  (pc = "parsed") =>
    \A i \in DOMAIN parse_input :
      LET e == parse_input[i] IN
      (HasCircumflexLetter(e[<<"r", "o", "o", "t">>]) /\ PyUpper(e[<<"t", "a", "g">>]) \in FST_STATES) =>
        /\ RuleOfEntry(e) \in Range(rule_set)
        /\ RuleOfEntry(PlainVariant(e)) \in Range(rule_set)

\* The abbreviation "ka^" is parsed: its rule is there, with the root in
\* upper case, and no rule has the plain root.
C6_Witness ==
  /\ pc = "parsed"
  /\ parse_input = <<LexiconEntry(<<"n", "n", "-", "a", "b", "b", "r">>, <<"k", "a^">>, <<"~">>, <<"~">>, <<"f", "a", "l", "s", "e">>)>>
  /\ \E r \in Range(rule_set) : r.input = <<"(", "K", "A^", "[", "N", "N", "]">>
  /\ \A r \in Range(rule_set) : r.input # <<"(", "K", "A", "[", "N", "N", "]">>

\* The normalized entries, and for each entry made by cross-classification,
\* in the order they are made, the entry it is made from and its tag.
Normalized == _normalize(parse_input)

Derivations ==
  Flatten([i \in DOMAIN Normalized |->
             [k \in DOMAIN CROSS_CLASSIFY_AS[Normalized[i][<<"t", "a", "g">>]] |->
                [source |-> Normalized[i],
                 target |-> CROSS_CLASSIFY_AS[Normalized[i][<<"t", "a", "g">>]][k]]]])

Derived == SubSeq(entries, Len(Normalized) + 1, Len(entries))

SchemasMatch(s, t) ==
  /\ REQUIRED_FEATURES[s] = REQUIRED_FEATURES[t]
  /\ OPTIONAL_FEATURES[s] = OPTIONAL_FEATURES[t]

\* C7: an entry with features that is cross-classified to a tag other than
\* NOMP-CASE-BARE whose feature schema is not the one of its own tag gives
\* an entry without features, and a rule whose input ends after the tag.
C7_MismatchedSchemaDropsFeatures ==
  (pc = "parsed") =>
    LET derivations == Derivations
        derived == Derived
    IN /\ Len(derived) = Len(derivations)
       /\ \A j \in DOMAIN derivations :
            LET s == derivations[j].source
                t == derivations[j].target
            IN (/\ s[<<"f", "e", "a", "t", "u", "r", "e", "s">>] # <<>>
                /\ t # <<"N", "O", "M", "P", "-", "C", "A", "S", "E", "-", "B", "A", "R", "E">>
                /\ ~SchemasMatch(s[<<"t", "a", "g">>], t)) =>
                 /\ derived[j][<<"f", "e", "a", "t", "u", "r", "e", "s">>] = <<>>
                 /\ t \in FST_STATES =>
                      \E r \in Range(rule_set) :
                        /\ r.to_state = t
                        /\ r.input = <<"(">> \o derived[j][<<"r", "o", "o", "t">>] \o <<"[">>
                                       \o OUTPUT_AS[t] \o <<"]">>

\* The postposition with a complement type is parsed: its rule as a noun,
\* a tag without features, keeps the feature.
C7_Witness ==
  /\ pc = "parsed"
  /\ parse_input =
       <<LexiconEntry(<<"i", "n">>, <<"I", "l", "i", "k">>, <<"~">>, <<"+", "[", "C", "o", "m", "p", "l", "e", "m", "e", "n", "t", "T", "y", "p", "e", "=", "C", "G", "e", "n", "]">>, <<"f", "a", "l", "s", "e">>)>>
  /\ \E r \in Range(rule_set) :
       r.to_state = <<"N", "N">> /\ r.input = <<"(", "i~", "l", "i", "k", "[", "N", "N", "]", "+", "[", "C", "o", "m", "p", "l", "e", "m", "e", "n", "t", "T", "y", "p", "e", "=", "C", "G", "e", "n", "]">>

\* The features the claim gives an entry of tag s cross-classified to t.
ClaimedFeatures(features, s, t) ==
  IF t = <<"N", "O", "M", "P", "-", "C", "A", "S", "E", "-", "B", "A", "R", "E">>
    THEN <<"+", "[", "P", "e", "r", "s", "o", "n", "N", "u", "m", "b", "e", "r", "=", "A", "3", "s", "g", "]", "+", "[", "P", "o", "s", "s", "e", "s", "s", "i", "v", "e", "=", "P", "n", "o", "n", "]", "+", "[", "C", "a", "s", "e", "=", "B", "a", "r", "e", "]">>
  ELSE IF REQUIRED_FEATURES[s] = REQUIRED_FEATURES[t] THEN features
  ELSE IF OPTIONAL_FEATURES[s] = OPTIONAL_FEATURES[t] THEN features
  ELSE <<>>

C9_OneRulePerStateEntry ==
  (pc = "parsed") =>
    LET is_state(i) == entries[i][<<"t", "a", "g">>] \in FST_STATES
        states == SelectSeq([i \in DOMAIN entries |-> i], is_state)
    IN /\ Len(rule_set) = Len(states)
       /\ \A k \in DOMAIN states :
            LET e == entries[states[k]]
                r == rule_set[k]
            IN /\ r.from_state = <<"S", "T", "A", "R", "T">>
               /\ r.to_state = e[<<"t", "a", "g">>]
               /\ r.input = <<"(">> \o e[<<"r", "o", "o", "t">>] \o <<"[">> \o OUTPUT_AS[e[<<"t", "a", "g">>]]
                              \o <<"]">> \o e[<<"f", "e", "a", "t", "u", "r", "e", "s">>]
               /\ r.output = IF e[<<"m", "o", "r", "p", "h", "o", "p", "h", "o", "n", "e", "m", "i", "c", "s">>] # <<>>
                               THEN e[<<"m", "o", "r", "p", "h", "o", "p", "h", "o", "n", "e", "m", "i", "c", "s">>]
                               ELSE _lower(e[<<"r", "o", "o", "t">>])

\* Entries are parsed of which one has no FST state tag, one has
\* morphophonemics and one has none and a root that is not in lower case.
C9_Witness ==
  /\ pc = "parsed"
  /\ \E i \in DOMAIN entries : entries[i][<<"t", "a", "g">>] \notin FST_STATES
  /\ \E i \in DOMAIN entries :
       entries[i][<<"t", "a", "g">>] \in FST_STATES /\ entries[i][<<"m", "o", "r", "p", "h", "o", "p", "h", "o", "n", "e", "m", "i", "c", "s">>] # <<>>
  /\ \E k \in DOMAIN rule_set :
       \E i \in DOMAIN entries :
         /\ entries[i][<<"m", "o", "r", "p", "h", "o", "p", "h", "o", "n", "e", "m", "i", "c", "s">>] = <<>>
         /\ entries[i][<<"r", "o", "o", "t">>] # _lower(entries[i][<<"r", "o", "o", "t">>])
         /\ rule_set[k].output = _lower(entries[i][<<"r", "o", "o", "t">>])
  /\ Len(rule_set) < Len(entries)

\* ------------------------------------------------------------------------
\* Properties of lexicon_validator.validate
\* ------------------------------------------------------------------------

\* The messages of validate in the order of the claim, each with the check
\* that raises it.
ClaimedOrder ==
  <<<<"Entry is missing fields", "_entry_has_required_fields">>,
    <<"Entry fields have empty values", "_entry_field_values_are_not_empty">>,
    <<"Entry field values contain whitespace",
      "_entry_field_values_does_not_contain_infix_whitespace">>,
    <<"Entry 'tag' field has invalid value", "_entry_tag_is_valid">>,
    <<"Entry 'is_compound' field has invalid value",
      "_entry_compound_annotation_is_valid">>,
    <<"Entry is marked as ending with compounding marker but it is missing morphophonemics annotation",
      "_entry_morphophonemics_annotation_is_valid">>,
    <<"Entry features annotation is invalid",
      "_entry_features_annotation_is_valid">>,
    <<"Entry is missing required features", "_entry_has_required_features">>,
    <<"Entry has invalid required feature category",
      "_entry_required_features_are_valid">>,
    <<"Entry has invalid required feature value",
      "_entry_required_features_are_valid">>,
    <<"Entry has invalid optional features",
      "_entry_optional_features_are_valid">>,
    <<"Entry has features while it is not expected to have any",
      "_entry_features_are_not_redundant">>>>

\* The entry violates the k-th check of the claim: the check, called on its
\* own, raises the message.  A check that reads a field can only be called
\* on an entry that has the fields, one that reads the features of the tag
\* only on an entry with a valid tag.
Violates(e, k) ==
  /\ k > 1 => _REQUIRED_FIELDS \subseteq DOMAIN e
  /\ k > 7 => _tag_of(e) \in VALID_TAGS
  /\ LET raised == Call(ClaimedOrder[k][2], e)
     IN raised # NoError /\ raised[1] = ClaimedOrder[k][1]

\* C10: validate raises the message of the first check, in the order of the
\* claim, that the entry violates, and accepts an entry that violates none.
C10_FirstViolatedCheckIsRaised ==
  (pc = "validated") =>
    LET violated == {k \in DOMAIN ClaimedOrder : Violates(entry, k)} IN
    IF violated = {} THEN verdict = NoError
    ELSE /\ verdict # NoError
         /\ verdict[1] =
              ClaimedOrder[CHOOSE k \in violated : \A j \in violated : k <= j][1]

\* An entry that violates three checks is rejected for the first of them.
C10_Witness ==
  /\ pc = "validated"
  /\ Violates(entry, 3)
  /\ Violates(entry, 4)
  /\ Violates(entry, 5)
  /\ ~Violates(entry, 1) /\ ~Violates(entry, 2)
  /\ verdict # NoError
  /\ verdict[1] = "Entry field values contain whitespace"

\* ------------------------------------------------------------------------
\* Properties of the readers and of the sources without rules
\* ------------------------------------------------------------------------

\* The file has no row below its header that is not blank: a file of its
\* header only, of blank rows below it, or without any line.
NoDataRows(lines) == \A i \in DOMAIN lines : i = 1 \/ _empty(lines[i])

\* The file has no line that is a rule definition.
NoRuleLines(lines) == \A i \in DOMAIN lines : ~_rule(lines[i])

\* C11: when no lexicon file has a data row, the reader returns an empty
\* mapping for each file and the run fails with "no valid lexicon rewrite
\* rules found"; when the lexicon is read and no morphotactics file has a
\* rule line, the run fails with "no valid morphotactics rewrite rules
\* found".
C11_NoRowsFailWithNoRulesFound ==
  /\ (\A p \in DOMAIN lexicon_dir : NoDataRows(lexicon_dir[p]))
     => /\ \A p \in DOMAIN lexicon_dir :
             read_lexicon_entries(lexicon_dir[p]) = Returned(<<>>)
        /\ pc # "get_lexicon_rules"
           => /\ pc = "failed"
              /\ error = Error("no valid lexicon rewrite rules found", <<>>)
  /\ (/\ \A p \in DOMAIN morphotactics_dir :
           NoRuleLines(morphotactics_dir[p])
      /\ pc \notin {"get_lexicon_rules", "get_morphotactics_rules"}
      /\ lexicon # <<>>)
     => /\ pc = "failed"
        /\ error = Error("no valid morphotactics rewrite rules found", <<>>)

\* A lexicon file without any line was read, and the run has ended with the
\* IndexError of the reader.
C11_Witness ==
  /\ pc = "failed"
  /\ lexicon_dir = <<<<>>>>
  /\ error = Error("IndexError", <<>>)

\* The line is blank, or its first character that is not whitespace is "#".
BlankOrComment(line) ==
  \/ PyLStrip(line) = <<>>
  \/ Head(PyLStrip(line)) = "#"

\* The items the reader is to return for the lines of a file: the
\* whitespace-separated tokens of each line that is neither blank nor a
\* comment, with its 1-based line number, in the order of the lines.
ExpectedRuleDefinitions(lines) ==
  LET kept(index) == ~BlankOrComment(lines[index])
      indices == SelectSeq([i \in DOMAIN lines |-> i], kept)
  IN [k \in DOMAIN indices |->
        <<indices[k], PySplit(_whitespace_trimmed(lines[indices[k]]))>>]

\* C12: read_rule_definitions skips every blank line and every line whose
\* first character that is not whitespace is "#", and returns each other
\* line as its whitespace-separated tokens with its 1-based line number, by
\* increasing line number.
C12_ReaderSkipsBlankAndCommentLines ==
  \A p \in DOMAIN morphotactics_dir :
    read_rule_definitions(morphotactics_dir[p])
      = ExpectedRuleDefinitions(morphotactics_dir[p])

\* A morphotactics file whose first line is a comment after two spaces was
\* read, and the run has ended with that line rejected as a rewrite rule.
C12_Witness ==
  /\ pc = "failed"
  /\ \E p \in DOMAIN morphotactics_dir :
       /\ Len(morphotactics_dir[p]) >= 1
       /\ morphotactics_dir[p][1] = <<" ", " ", "#", " ", "s", "t", "a", "t", "e", "s">>
       /\ error[1] = "Rewrite rule is illformed"
       /\ error[2] = 1
       /\ error[3] = p

\* ------------------------------------------------------------------------
\* Properties of the normalization of lexicon_parser.parse, continued
\* ------------------------------------------------------------------------

\* _normalize run on a list _normalize has returned.  _normalize_entry has
\* replaced the is_compound string of each entry by a bool, so on the first
\* entry of the list entry["is_compound"].lower() is an AttributeError; a
\* list without entries is returned as it is.
_normalize_normalized(normalized) ==
  IF normalized = <<>>
    THEN Returned(<<>>)
    ELSE Raised(Error("AttributeError", <<>>))

\* C20: normalization is idempotent: run on the entry list that
\* normalization has returned, it returns the same entry list, with the
\* same entries, field values and length.
C20_NormalizationIsIdempotent ==
  pc = "cross_classify" => _normalize_normalized(entries) = Returned(entries)

\* A list with an entry was normalized, and normalizing it again raises.
C20_Witness ==
  /\ pc = "cross_classify"
  /\ entries # <<>>
  /\ entries[1][<<"i", "s", "_", "c", "o", "m", "p", "o", "u", "n", "d">>] \in BOOLEAN
  /\ _normalize_normalized(entries).error = Error("AttributeError", <<>>)

\* ------------------------------------------------------------------------
\* turkish_morphology/analysis_pb2 (proto2 messages)
\*
\* A message is the function of its fields that are set: an optional field
\* is in its domain when HasField holds, a repeated field always is.  A
\* field that is not set reads as its default: the empty string, or the
\* message without any field.
\* ------------------------------------------------------------------------

Unset == [field \in {} |-> <<>>]

HasField(message, field) == field \in DOMAIN message

Field(message, field, default) ==
  IF field \in DOMAIN message THEN message[field] ELSE default

\* ------------------------------------------------------------------------
\* turkish_morphology/validate.py
\* ------------------------------------------------------------------------

\* validate_root without the test for an empty morpheme.
validate_root_missing_only(root) ==
  IF ~HasField(root, "morpheme")
    THEN Error("Root is missing morpheme", <<>>)
    ELSE NoError

validate_root(root) ==
  IF ~HasField(root, "morpheme")
    THEN Error("Root is missing morpheme", <<>>)
  ELSE IF root.morpheme = <<>>
    THEN Error("Root morpheme is empty", <<>>)
  ELSE NoError

validate_feature(feature) ==
  IF ~HasField(feature, "category")
    THEN Error("Feature is missing category", <<>>)
  ELSE IF feature.category = <<>>
    THEN Error("Feature category is empty", <<>>)
  ELSE IF ~HasField(feature, "value")
    THEN Error("Feature is missing value", <<>>)
  ELSE IF feature.value = <<>>
    THEN Error("Feature value is empty", <<>>)
  ELSE NoError

validate_affix(affix, derivational) ==
  IF ~HasField(affix, "feature")
    THEN Error("Affix is missing feature", <<>>)
  ELSE OrElse(validate_feature(affix.feature),
              IF ~derivational THEN NoError
              ELSE IF ~HasField(affix, "meta_morpheme")
                THEN Error("Derivational affix is missing meta-morpheme", <<>>)
              ELSE IF affix.meta_morpheme = <<>>
                THEN Error("Derivational affix meta-morpheme is empty", <<>>)
              ELSE NoError)

\* The error of the first call that raises, of calls made in order.
FirstRaised(raised) ==
  IF \A k \in DOMAIN raised : raised[k] = NoError THEN NoError
  ELSE raised[CHOOSE k \in DOMAIN raised :
                /\ raised[k] # NoError
                /\ \A j \in 1..(k - 1) : raised[j] = NoError]

\* position is the index of the group, from 0.
validate_inflectional_group(ig, position) ==
  IF ~HasField(ig, "pos")
    THEN Error("Inflectional group is missing part-of-speech tag",
               <<position + 1>>)
  ELSE IF ig.pos = <<>>
    THEN Error("Inflectional group part-of-speech tag is empty",
               <<position + 1>>)
  ELSE OrElse(
    IF position = 0
      THEN IF ~HasField(ig, "root")
             THEN Error("Inflectional group is missing root", <<position + 1>>)
             ELSE validate_root(ig.root)
      ELSE IF ~HasField(ig, "derivation")
             THEN Error("Inflectional group is missing derivational affix",
                        <<position + 1>>)
             ELSE validate_affix(ig.derivation, TRUE),
    FirstRaised([k \in DOMAIN ig.inflection |->
                   validate_affix(ig.inflection[k], FALSE)]))

validate_analysis(analysis) ==
  IF analysis.ig = <<>>
    THEN Error("Analysis is missing inflectional groups", <<>>)
    ELSE FirstRaised([k \in DOMAIN analysis.ig |->
                        validate_inflectional_group(analysis.ig[k], k - 1)])

\* ------------------------------------------------------------------------
\* turkish_morphology/pretty_print.py
\* ------------------------------------------------------------------------

pretty_print_root(root) == Field(root, "morpheme", <<>>)

pretty_print_feature(feature) ==
  <<"[">> \o Field(feature, "category", <<>>) \o <<"=">>
    \o Field(feature, "value", <<>>) \o <<"]">>

pretty_print_affix(affix, derivational) ==
  (IF derivational THEN <<"-">> ELSE <<"+">>)
    \o Field(affix, "meta_morpheme", <<>>)
    \o pretty_print_feature(Field(affix, "feature", Unset))

pretty_print_inflectional_group(ig, position) ==
  <<"(">>
    \o (IF position = 0
          THEN pretty_print_root(Field(ig, "root", Unset))
                 \o <<"[">> \o Field(ig, "pos", <<>>) \o <<"]">>
          ELSE <<"[">> \o Field(ig, "pos", <<>>) \o <<"]">>
                 \o pretty_print_affix(Field(ig, "derivation", Unset), TRUE))
    \o Flatten([k \in DOMAIN ig.inflection |->
                  pretty_print_affix(ig.inflection[k], FALSE)])
    \o <<")">>
    \o (IF HasField(ig, "proper")
          THEN IF ig.proper THEN <<"+", "[", "P", "r", "o", "p", "e", "r", "=", "T", "r", "u", "e", "]">> ELSE <<"+", "[", "P", "r", "o", "p", "e", "r", "=", "F", "a", "l", "s", "e", "]">>
          ELSE <<>>)

pretty_print_analysis(analysis) ==
  Flatten([k \in DOMAIN analysis.ig |->
             pretty_print_inflectional_group(analysis.ig[k], k - 1)])

\* ------------------------------------------------------------------------
\* Matches with groups (re.finditer, Match.groupdict, Match.end)
\*
\* A pattern with groups is given as its alternatives, each the sequence of
\* the parts it concatenates; a group is one of the parts.
\* ------------------------------------------------------------------------

\* The end the matcher takes for re at position i when rest is to match
\* after it: the first end of re, in the order it tries them, from which
\* rest matches.
EndBefore(re, rest, s, i) ==
  LET viable(e) == Ends(Cat(rest), s, e) # <<>>
  IN Head(SelectSeq(Ends(re, s, i), viable))

\* The ends of the parts of a concatenation that matches at position i.
RECURSIVE PartEnds(_, _, _)

PartEndsAfter(parts, s, e) == <<e>> \o PartEnds(Tail(parts), s, e)

PartEnds(parts, s, i) ==
  IF parts = <<>> THEN <<>>
  ELSE PartEndsAfter(parts, s, EndBefore(Head(parts), Tail(parts), s, i))

\* The match at position i: the first alternative that matches there, with
\* the ends of its parts; no match is the empty tuple.
RECURSIVE MatchAt(_, _, _, _)
MatchAt(alternatives, k, s, i) ==
  IF k > Len(alternatives) THEN <<>>
  ELSE IF Ends(Cat(alternatives[k]), s, i) # <<>>
    THEN <<[start |-> i, alternative |-> k,
            ends |-> PartEnds(alternatives[k], s, i)]>>
  ELSE MatchAt(alternatives, k + 1, s, i)

\* Match.end(), as a position from 1: the position after the match.
MatchEnd(match) == match.ends[Len(match.ends)]

\* The matches from position i on, as finditer yields them.  No pattern of
\* the sources matches the empty string.
RECURSIVE FindIter(_, _, _)

FindIterWith(alternatives, s, i, match) ==
  IF match = <<>> THEN FindIter(alternatives, s, i + 1)
  ELSE match \o FindIter(alternatives, s, MatchEnd(match[1]))

FindIter(alternatives, s, i) ==
  IF i > Len(s) THEN <<>>
  ELSE FindIterWith(alternatives, s, i, MatchAt(alternatives, 1, s, i))

\* The text of the k-th part of a match.
Group(s, match, k) ==
  SubSeq(s, IF k = 1 THEN match.start ELSE match.ends[k - 1],
         match.ends[k] - 1)

\* ------------------------------------------------------------------------
\* turkish_morphology/decompose.py
\* ------------------------------------------------------------------------

\* [A-Z\.,:\(\)\'\-\"`\$]+?
PosTag ==
  PlusLazy(Cls(AZ \cup {".", ",", ":", "(", ")", "'", "-", "\"", "grave",
                        "$"}))

\* The parts of _AFFIX_REGEX: [\+-], the group meta_morpheme
\* (?:[^\W\d_]|['\.])*?, \[, the group category [A-z]+?, =, the group value
\* [A-z0-9]+?, and \].
_AFFIX_REGEX ==
  <<Cls({"+", "-"}), StarLazy(Alt(<<Cls(Letter), Cls({"'", "."})>>)),
    Lit(<<"[">>), PlusLazy(Cls(Az)), Lit(<<"=">>), PlusLazy(Cls(Az09)),
    Lit(<<"]">>)>>

\* The end of _IG_REGEX: the group inflections
\* (?:\+(?:[^\W\d_]|['\.])*?\[[A-z]+?=[A-z0-9]+?\])*, \), and
\* (?:\+\[Proper=(?P<proper>True|False)\])?
InflectionsToProper ==
  <<[op |-> "star", greedy |-> TRUE,
     r |-> Cat(<<Lit(<<"+">>),
                 StarLazy(Alt(<<Cls(Letter), Cls({"'", "."})>>)),
                 InflectionFeature>>)],
    Lit(<<")">>),
    Opt(Cat(<<Lit(<<"+", "[", "P", "r", "o", "p", "e", "r", "=">>), Alt(<<Lit(<<"T", "r", "u", "e">>), Lit(<<"F", "a", "l", "s", "e">>)>>),
              Lit(<<"]">>)>>))>>

\* The alternatives of _IG_REGEX, each with \( before it and the end of the
\* pattern after it: the groups root .+? and root_pos in brackets, or the
\* group derivation_pos in brackets and the group derivation
\* (-(?:[^\W\d_]|')+?\[[A-z]+?=[A-z]+?\])?
_IG_REGEX ==
  <<<<Lit(<<"(">>), PlusLazy(Cls(Chars)), Lit(<<"[">>), PosTag, Lit(<<"]">>)>>
      \o InflectionsToProper,
    <<Lit(<<"(", "[">>), PosTag, Lit(<<"]">>),
      Opt(Cat(<<Lit(<<"-">>), PlusLazy(Alt(<<Cls(Letter), Cls({"'"})>>)),
                DerivationFeature>>))>>
      \o InflectionsToProper>>

\* Match.groupdict() of a match of _IG_REGEX.  A group that took no part in
\* the match is None, which is read as the empty string: the code only
\* tests such a group for truth.
IgGroups(s, match) ==
  IF match.alternative = 1
    THEN [root |-> Group(s, match, 2), root_pos |-> Group(s, match, 4),
          derivation_pos |-> <<>>, derivation |-> <<>>,
          inflections |-> Group(s, match, 6),
          proper |-> SubSeq(Group(s, match, 8), 10, Len(Group(s, match, 8)) - 1)]
    ELSE [root |-> <<>>, root_pos |-> <<>>,
          derivation_pos |-> Group(s, match, 2),
          derivation |-> Group(s, match, 4),
          inflections |-> Group(s, match, 5),
          proper |-> SubSeq(Group(s, match, 7), 10, Len(Group(s, match, 7)) - 1)]

\* The affix of one match of _AFFIX_REGEX.
AffixOf(s, match) ==
  ("feature" :> [category |-> Group(s, match, 4), value |-> Group(s, match, 6)])
    @@ (IF Group(s, match, 2) # <<>>
          THEN "meta_morpheme" :> Group(s, match, 2) ELSE Unset)

\* tuple(_make_affix(human_readable))
_make_affix(human_readable) ==
  LET found == FindIter(<<_AFFIX_REGEX>>, human_readable, 1)
  IN [k \in DOMAIN found |-> AffixOf(human_readable, found[k])]

\* The inflectional group made of the groups of a match.
IgOf(matching, position) ==
  ("pos" :> (IF position = 0 THEN matching.root_pos
                             ELSE matching.derivation_pos))
    @@ (IF position = 0 THEN "root" :> [morpheme |-> matching.root]
                        ELSE "derivation" :> _make_affix(matching.derivation)[1])
    @@ ("inflection" :> _make_affix(matching.inflections))
    @@ (IF matching.proper # <<>>
          THEN "proper" :> (matching.proper = <<"T", "r", "u", "e">>) ELSE Unset)

\* human_readable_analysis without the test of the root of the first group.
AnalysisOfMatchesAnyFirst(human_readable, igs, matches) ==
  IF ~(/\ igs # <<>>
       /\ Len(human_readable) = MatchEnd(igs[Len(igs)]) - 1
       /\ \A k \in 2..Len(matches) : matches[k].derivation # <<>>
       /\ \A k \in 2..Len(matches) : matches[k].derivation_pos # <<>>)
    THEN Raised(Error("Human-readable analysis is ill-formed", <<>>))
    ELSE Returned([ig |-> [k \in DOMAIN matches |-> IgOf(matches[k], k - 1)]])

\* human_readable_analysis once the matches are found.
AnalysisOfMatches(human_readable, igs, matches) ==
  IF ~(/\ igs # <<>>
       /\ Len(human_readable) = MatchEnd(igs[Len(igs)]) - 1
       /\ matches[1].root # <<>>
       /\ matches[1].root_pos # <<>>
       /\ \A k \in 2..Len(matches) : matches[k].derivation # <<>>
       /\ \A k \in 2..Len(matches) : matches[k].derivation_pos # <<>>)
    THEN Raised(Error("Human-readable analysis is ill-formed", <<>>))
    ELSE Returned([ig |-> [k \in DOMAIN matches |-> IgOf(matches[k], k - 1)]])

MatchesOf(human_readable, igs) ==
  AnalysisOfMatches(human_readable, igs,
                    [k \in DOMAIN igs |-> IgGroups(human_readable, igs[k])])

human_readable_analysis(human_readable) ==
  IF human_readable = <<>>
    THEN Raised(Error("Human-readable analysis is empty", <<>>))
    ELSE MatchesOf(human_readable, FindIter(_IG_REGEX, human_readable, 1))


\* ------------------------------------------------------------------------
\* pywrapfst
\*
\* An FST is a record of its start state, its final states, the arcs of
\* each state in their order, and its symbol table; an edge is a record of
\* its labels and its next state (every weight is 0).  A symbol table is
\* the function from the indices it holds to their symbols.
\* ------------------------------------------------------------------------

\* SymbolTable.find(symbol): the index of the symbol, -1 when the table does
\* not hold it.
FindIndex(symbol_table, symbol) ==
  IF \E index \in DOMAIN symbol_table : symbol_table[index] = symbol
    THEN CHOOSE index \in DOMAIN symbol_table : symbol_table[index] = symbol
    ELSE 0 - 1

\* SymbolTable.find(index): the symbol of the index, the empty string when
\* the table does not hold it.
FindSymbol(symbol_table, index) == Field(symbol_table, index, <<>>)

\* The outcomes of Fst.arcsort(sort_type="olabel") on the arcs of a state:
\* the arcs by output label, arcs of equal output label in any order.
ArcSorted(arcs) ==
  {[k \in DOMAIN arcs |-> arcs[order[k]]] :
     order \in {p \in Permutations(DOMAIN arcs) :
                  \A j, k \in DOMAIN arcs :
                    j < k => arcs[p[j]].olabel <= arcs[p[k]].olabel}}

\* The states of an FST are 0 .. n - 1; state p of this_fst with state q of
\* that_fst is a state of their composition.
NumStates(fst) == Cardinality(DOMAIN fst.arcs)
PairState(that_fst, p, q) == p * NumStates(that_fst) + q
StateOfThis(that_fst, state) == state \div NumStates(that_fst)
StateOfThat(that_fst, state) == state % NumStates(that_fst)

\* The arcs of state PairState(that_fst, p, q) of the composition of this_fst with that_fst,
\* before it is trimmed: an edge of this_fst whose output label is that of
\* an edge of that_fst's input, an edge of this_fst without output on its
\* own, and an edge of that_fst without input on its own.  A label 0 - 1, which
\* no edge of an analyzer FST has, matches none.
ProductArcs(this_fst, that_fst, p, q) ==
  Flatten([j \in DOMAIN this_fst.arcs[p] |->
    IF this_fst.arcs[p][j].olabel = 0
      THEN <<[ilabel |-> this_fst.arcs[p][j].ilabel, olabel |-> 0,
              nextstate |-> PairState(that_fst, this_fst.arcs[p][j].nextstate, q)]>>
      ELSE Flatten([k \in DOMAIN that_fst.arcs[q] |->
             IF that_fst.arcs[q][k].ilabel = this_fst.arcs[p][j].olabel
               THEN <<[ilabel |-> this_fst.arcs[p][j].ilabel,
                       olabel |-> that_fst.arcs[q][k].olabel,
                       nextstate |-> PairState(that_fst,
                                       this_fst.arcs[p][j].nextstate,
                                       that_fst.arcs[q][k].nextstate)]>>
               ELSE <<>>])])
  \o Flatten([k \in DOMAIN that_fst.arcs[q] |->
       IF that_fst.arcs[q][k].ilabel = 0
         THEN <<[ilabel |-> 0, olabel |-> that_fst.arcs[q][k].olabel,
                 nextstate |-> PairState(that_fst, p, that_fst.arcs[q][k].nextstate)]>>
         ELSE <<>>])

\* The states of the composition from which a final state can be reached,
\* given those found so far.
ComposedStates(this_fst, that_fst) ==
  0..(NumStates(this_fst) * NumStates(that_fst) - 1)

StatesBefore(this_fst, that_fst, found) ==
  {state \in ComposedStates(this_fst, that_fst) \ found :
     \E edge \in Range(ProductArcs(this_fst, that_fst,
                                   StateOfThis(that_fst, state),
                                   StateOfThat(that_fst, state))) :
       edge.nextstate \in found}

RECURSIVE Coaccessible(_, _, _)
CoaccessibleWith(this_fst, that_fst, found, before) ==
  IF before = {} THEN found
  ELSE Coaccessible(this_fst, that_fst, found \cup before)

Coaccessible(this_fst, that_fst, found) ==
  CoaccessibleWith(this_fst, that_fst, found,
                   StatesBefore(this_fst, that_fst, found))

\* The composition of two FSTs trimmed to the given states.
Trimmed(this_fst, that_fst, states) ==
  [start |-> IF PairState(that_fst, this_fst.start, that_fst.start)
                  \in states
               THEN PairState(that_fst, this_fst.start, that_fst.start)
               ELSE 0 - 1,
   states |-> states, this_fst |-> this_fst, that_fst |-> that_fst]

\* pywrapfst.compose(this_fst, that_fst): the composition, trimmed to the
\* states from which a final state can be reached; its start is -1 when
\* there is no path from its start to a final state.  Its arcs are those of
\* Arcs.
pywrapfst_compose(this_fst, that_fst) ==
  Trimmed(this_fst, that_fst,
          Coaccessible(this_fst, that_fst,
                       {PairState(that_fst, p, q) :
                          p \in this_fst.final, q \in that_fst.final}))

\* Fst.arcs(state) of a composition.
Arcs(composed, state) ==
  LET on_path(edge) == edge.nextstate \in composed.states
  IN SelectSeq(ProductArcs(composed.this_fst, composed.that_fst,
                           StateOfThis(composed.that_fst, state),
                           StateOfThat(composed.that_fst, state)), on_path)

\* ------------------------------------------------------------------------
\* str.encode("utf-8") and bytes.decode("utf-8") for code points below 2048
\* ------------------------------------------------------------------------

Utf8Encode(string) ==
  Flatten([k \in DOMAIN string |->
             IF Ord(string[k]) < 128 THEN <<Ord(string[k])>>
             ELSE <<192 + (Ord(string[k]) \div 64),
                    128 + (Ord(string[k]) % 64)>>])

RECURSIVE Utf8Decode(_)
Utf8Decode(bytes) ==
  IF bytes = <<>> THEN <<>>
  ELSE IF bytes[1] < 128
    THEN <<CHOOSE c \in Chars : Ord(c) = bytes[1]>>
           \o Utf8Decode(Tail(bytes))
  ELSE <<CHOOSE c \in Chars :
           Ord(c) = (bytes[1] - 192) * 64 + (bytes[2] - 128)>>
         \o Utf8Decode(Tail(Tail(bytes)))

\* ------------------------------------------------------------------------
\* turkish_morphology/fst.py
\* ------------------------------------------------------------------------

\* compile: the chain of states 0 .. n with one edge for each symbol index.
compile(symbol_indices, symbol_table) ==
  [start |-> 0,
   final |-> {Len(symbol_indices)},
   arcs |-> [state \in 0..Len(symbol_indices) |->
               IF state < Len(symbol_indices)
                 THEN <<[ilabel |-> symbol_indices[state + 1],
                         olabel |-> symbol_indices[state + 1],
                         nextstate |-> state + 1]>>
                 ELSE <<>>],
   symbols |-> symbol_table]

\* extract_parses(fst, state_index, "ilabel"): the parses it yields, as a
\* set.
RECURSIVE extract_parses(_, _, _)
extract_parses(fst, state_index, symbol_indices) ==
  IF Arcs(fst, state_index) = <<>>
    THEN {Utf8Decode(symbol_indices)}
    ELSE UNION {extract_parses(fst, edge.nextstate,
                               IF edge.ilabel # 0
                                 THEN Append(symbol_indices, edge.ilabel)
                                 ELSE symbol_indices) :
                  edge \in Range(Arcs(fst, state_index))}

\* compose: sorts the arcs of this_fst by output label, in place, and
\* composes.  ComposeSorted is the set of the pairs of this_fst as the sort
\* leaves it and of the composition.
RECURSIVE SortedArcs(_, _)
SortedArcs(arcs, n) ==
  IF n = 0 THEN {<<>>}
  ELSE {Append(sorted, last) : sorted \in SortedArcs(arcs, n - 1),
                               last \in ArcSorted(arcs[n - 1])}

SortedFsts(this_fst) ==
  {[this_fst EXCEPT !.arcs = [state \in DOMAIN @ |-> sorted[state + 1]]] :
     sorted \in SortedArcs(this_fst.arcs, NumStates(this_fst))}

compose(this_fst, that_fst) ==
  {<<sorted, pywrapfst_compose(sorted, that_fst)>> :
     sorted \in SortedFsts(this_fst)}

\* ------------------------------------------------------------------------
\* turkish_morphology/analyze.py
\* ------------------------------------------------------------------------

\* str.replace(old, "") for a non-empty old.
RECURSIVE Removed(_, _)
Removed(string, old) ==
  IF Len(string) < Len(old) THEN string
  ELSE IF SubSeq(string, 1, Len(old)) = old
    THEN Removed(SubSeq(string, Len(old) + 1, Len(string)), old)
  ELSE <<Head(string)>> \o Removed(Tail(string), old)

\* _input_fst: the chain of states 0 .. n with one arc for each byte of the
\* surface form.
ByteChain(bytes, symbol_table) ==
  [start |-> 0,
   final |-> {Len(bytes)},
   arcs |-> [state \in 0..Len(bytes) |->
               IF state < Len(bytes)
                 THEN <<[ilabel |-> bytes[state + 1],
                         olabel |-> bytes[state + 1],
                         nextstate |-> state + 1]>>
                 ELSE <<>>],
   symbols |-> symbol_table]

_input_fst(surface_form, symbol_table) ==
  ByteChain(Utf8Encode(surface_form), symbol_table)

\* _output_fst: the arcs of the input FST, one for each state, are sorted
\* as they are.
_output_fst(model_fst, input_fst) == pywrapfst_compose(input_fst, model_fst)

\* _extract_analyses with the symbol of every label, the epsilon included.
RECURSIVE _extract_analyses_with_epsilon(_, _, _, _)
_extract_analyses_with_epsilon(output_fst, state_index, symbol_table, symbols) ==
  IF Arcs(output_fst, state_index) = <<>>
    THEN {symbols}
    ELSE UNION {_extract_analyses_with_epsilon(
                  output_fst, edge.nextstate, symbol_table,
                  symbols \o FindSymbol(symbol_table, edge.olabel)) :
                  edge \in Range(Arcs(output_fst, state_index))}

\* _extract_analyses: the analyses it yields, as a set.
RECURSIVE _extract_analyses(_, _, _, _)
_extract_analyses(output_fst, state_index, symbol_table, symbols) ==
  IF Arcs(output_fst, state_index) = <<>>
    THEN {symbols}
    ELSE UNION {_extract_analyses(
                  output_fst, edge.nextstate, symbol_table,
                  IF FindSymbol(symbol_table, edge.olabel) # <<"<", "e", "p", "s", ">">>
                    THEN symbols \o FindSymbol(symbol_table, edge.olabel)
                    ELSE symbols) :
                  edge \in Range(Arcs(output_fst, state_index))}

\* _remove_proper_feature that removes the feature of common nouns only.
_remove_proper_false(human_readable) ==
  Removed(human_readable, <<"+", "[", "P", "r", "o", "p", "e", "r", "=", "F", "a", "l", "s", "e", "]">>)

_remove_proper_feature(human_readable) ==
  Removed(Removed(human_readable, <<"+", "[", "P", "r", "o", "p", "e", "r", "=", "F", "a", "l", "s", "e", "]">>), <<"+", "[", "P", "r", "o", "p", "e", "r", "=", "T", "r", "u", "e", "]">>)

\* What surface_form returns for the composition of the input with the
\* model.
AnalysesOf(output, symbol_table, use_proper_feature) ==
  IF output.start = 0 - 1
    THEN <<>>
  ELSE IF use_proper_feature
    THEN PySorted(_extract_analyses(output, output.start, symbol_table,
                                    <<>>))
  ELSE PySorted({_remove_proper_feature(hr) :
                   hr \in _extract_analyses(output, output.start,
                                            symbol_table, <<>>)})

\* analyze.surface_form over the model FST.
analyze_surface_form(model, surface_form, use_proper_feature) ==
  AnalysesOf(_output_fst(model, _input_fst(surface_form, model.symbols)),
             model.symbols, use_proper_feature)

\* ------------------------------------------------------------------------
\* turkish_morphology/generate.py
\* ------------------------------------------------------------------------

generate__SYMBOLS_REGEX ==
  Alt(<<
    \* First inflectional group: \(.+?\[[A-Z\.,:\(\)\'\-\"`\$]+?\]
    Cat(<<Lit(<<"(">>), PlusLazy(Cls(Chars)), Lit(<<"[">>),
          PlusLazy(Cls(AZ \cup {".", ",", ":", "(", ")", "'", "-", "\"",
                                "grave", "$"})),
          Lit(<<"]">>)>>),
    \* Inflectional group boundaries: \)?\(\[[A-Z]+?\]
    Cat(<<Opt(Lit(<<")">>)), Lit(<<"(">>), BracketedTag>>),
    \* Derivational morphemes: -(?:[^\W\d_]|')+?\[[A-z]+?=[A-z]+?\]
    Cat(<<Lit(<<"-">>), PlusLazy(Alt(<<Cls(Letter), Cls({"'"})>>)),
          DerivationFeature>>),
    \* Inflectional morphemes and features:
    \* \+(?:[^\W\d_]|['\.])*?\[[A-z]+?=[A-z0-9]+?\]
    Cat(<<Lit(<<"+">>), StarLazy(Alt(<<Cls(Letter), Cls({"'", "."})>>)),
          InflectionFeature>>),
    \* Proper noun analysis.
    ProperFeature,
    \* Numbers: \d+(?:\[[A-Z]+?\])?
    Cat(<<PlusGreedy(Cls(Digit)), Opt(BracketedTag)>>),
    \* Parenthesis or decimal point separators: [\(\.,]
    Cls({"(", ".", ","})
  >>)

generate__lower(string) ==
  PyLower(PyReplace(PyReplace(string, "I.", "i"), "I", "i~"))

\* _add_proper that sets a missing proper feature to False whatever the tag.
_add_proper_false(analysis) ==
  IF HasField(analysis.ig[Len(analysis.ig)], "proper")
    THEN analysis
    ELSE [ig |-> [analysis.ig EXCEPT ![Len(analysis.ig)] =
                    @ @@ ("proper" :> FALSE)]]

\* _add_proper of an analysis with an inflectional group.
_add_proper(analysis) ==
  IF HasField(analysis.ig[Len(analysis.ig)], "proper")
    THEN analysis
    ELSE [ig |-> [analysis.ig EXCEPT ![Len(analysis.ig)] =
                    @ @@ ("proper" :> (Field(@, "pos", <<>>) = <<"N", "N", "P">>))]]

IndicesOf(symbols, symbol_table) ==
  [k \in DOMAIN symbols |-> FindIndex(symbol_table, symbols[k])]

_symbol_indices(analysis, symbol_table) ==
  IndicesOf(FindAll(generate__SYMBOLS_REGEX, pretty_print_analysis(analysis)),
            symbol_table)

\* The surface forms of a composition of the analyzer with the input.
SurfaceForms(output) ==
  {generate__lower(parse) :
     parse \in extract_parses(output, output.start, <<>>)}

\* generate.surface_form over the analyzer FST: the set of its outcomes,
\* each the analyzer as the call leaves it and what the call returns or
\* raises.  analysis.ig[-1] of an analysis without inflectional groups
\* raises IndexError before the analyzer is touched; the element that
\* list(set(...))[0] takes is any of the set.
generate_surface_form(analyzer, analysis) ==
  IF analysis.ig = <<>>
    THEN {<<analyzer, Raised(Error("IndexError", <<>>))>>}
    ELSE UNION {IF composed[2].start = 0 - 1
                  THEN {<<composed[1], Returned(<<>>)>>}
                  ELSE {<<composed[1], Returned(form)>> :
                          form \in SurfaceForms(composed[2])} :
                  composed \in compose(analyzer,
                                       compile(_symbol_indices(
                                                 _add_proper(analysis),
                                                 analyzer.symbols),
                                               analyzer.symbols))}

\* ------------------------------------------------------------------------
\* The library: analyze, decompose, validate, pretty_print and generate
\* over a loaded analyzer FST
\* ------------------------------------------------------------------------

\* The symbol table of the analyzers: epsilon, the bytes of the surface
\* forms, and the complex symbols of the analyses.
AnalyzerSymbols ==
  (0 :> <<"<", "e", "p", "s", ">">>) @@ (65 :> <<"A">>) @@ (97 :> <<"a">>) @@ (100 :> <<"d">>)
  @@ (101 :> <<"e">>) @@ (105 :> <<"i">>) @@ (108 :> <<"l">>) @@ (118 :> <<"v">>)
  @@ (256 :> <<"(", "e", "v", "[", "N", "N", "]">>) @@ (257 :> <<"+", "D", "A", "[", "C", "a", "s", "e", "=", "L", "o", "c", "]">>)
  @@ (258 :> <<")", "+", "[", "P", "r", "o", "p", "e", "r", "=", "F", "a", "l", "s", "e", "]">>) @@ (259 :> <<"(", "A", "l", "i", "[", "N", "N", "P", "]">>)
  @@ (260 :> <<")", "+", "[", "P", "r", "o", "p", "e", "r", "=", "T", "r", "u", "e", "]">>) @@ (261 :> <<")", "(", "[", "J", "J", "]">>)
  @@ (262 :> <<"-", "l", "H", "[", "D", "e", "r", "i", "v", "a", "t", "i", "o", "n", "=", "W", "i", "t", "h", "]">>) @@ (263 :> <<"(", "A", "l", "i", "[", "N", "N", "]">>)
  @@ (264 :> <<"+", "[", "P", "e", "r", "s", "o", "n", "N", "u", "m", "b", "e", "r", "=", "A", "3", "s", "g", "]">>)

Arc(ilabel, olabel, nextstate) ==
  [ilabel |-> ilabel, olabel |-> olabel, nextstate |-> nextstate]

\* An analyzer of "ev", with and without its null person suffix, of "evde"
\* (also written "evda") and of "evli"; the arcs of state 2 are not in the
\* order of their output labels.
EvAnalyzer ==
  [start |-> 0,
   final |-> {6},
   arcs |-> (0 :> <<Arc(101, 256, 1)>>)
            @@ (1 :> <<Arc(118, 0, 2)>>)
            @@ (2 :> <<Arc(0, 258, 6), Arc(100, 257, 3), Arc(108, 261, 4),
                     Arc(0, 264, 5)>>)
            @@ (3 :> <<Arc(101, 0, 5), Arc(97, 0, 5)>>)
            @@ (4 :> <<Arc(105, 262, 5)>>)
            @@ (5 :> <<Arc(0, 258, 6)>>)
            @@ (6 :> <<>>),
   symbols |-> AnalyzerSymbols]

\* An analyzer of "Ali" as a proper noun and as a common noun; the arcs of
\* each state are in the order of their output labels.
AliAnalyzer ==
  [start |-> 0,
   final |-> {4},
   arcs |-> (0 :> <<Arc(65, 259, 1), Arc(65, 263, 5)>>)
            @@ (1 :> <<Arc(108, 0, 2)>>)
            @@ (2 :> <<Arc(105, 0, 3)>>)
            @@ (3 :> <<Arc(0, 260, 4)>>)
            @@ (4 :> <<>>)
            @@ (5 :> <<Arc(108, 0, 6)>>)
            @@ (6 :> <<Arc(105, 0, 7)>>)
            @@ (7 :> <<Arc(0, 258, 4)>>),
   symbols |-> AnalyzerSymbols]

\* The analyzer FSTs the archive may hold: acyclic, with one accept state
\* that has no arcs.
AnalyzerFsts == {EvAnalyzer, AliAnalyzer}

\* The surface forms given to analyze.surface_form.
Words == {<<>>, <<"e", "v">>, <<"e", "v", "d", "e">>, <<"e", "v", "d", "a">>, <<"e", "v", "l", "i">>, <<"A", "l", "i">>, <<"a", "l", "i">>, <<"e", "v", "d">>}

\* The human-readable analyses given to decompose.human_readable_analysis.
HumanReadables ==
  {<<>>, <<"e", "v">>, <<"(", "e", "v", "[", "N", "N", "]", ")">>, <<"(", "e", "v", "[", "N", "N", "]", "+", "D", "A", "[", "C", "a", "s", "e", "=", "L", "o", "c", "]", ")", "+", "[", "P", "r", "o", "p", "e", "r", "=", "F", "a", "l", "s", "e", "]">>,
   <<"(", "e", "v", "[", "N", "N", "]", ")", "(", "[", "J", "J", "]", "-", "l", "H", "[", "D", "e", "r", "i", "v", "a", "t", "i", "o", "n", "=", "W", "i", "t", "h", "]", ")">>, <<"x", "x", "(", "e", "v", "[", "N", "N", "]", ")">>,
   <<"(", "e", "v", "[", "N", "N", "]", ")", "y", "y", "(", "[", "J", "J", "]", "-", "l", "H", "[", "D", "e", "r", "i", "v", "a", "t", "i", "o", "n", "=", "W", "i", "t", "h", "]", ")">>, <<"(", "e", "v", "[", "N", "N", "]", ")", "z">>,
   <<"(", "[", "J", "J", "]", "-", "l", "H", "[", "D", "e", "r", "i", "v", "a", "t", "i", "o", "n", "=", "W", "i", "t", "h", "]", ")">>, <<"(", "e", "v", "[", "N", "N", "]", ")", "(", "b", "[", "N", "N", "]", ")">>, <<"(", "e", "v", "[", "N", "N", "]", ")", "(", "[", "J", "J", "]", ")">>}

\* Messages of analysis.proto.
Feature(category, value) == ("category" :> category) @@ ("value" :> value)

Affix(category, value, meta_morpheme) ==
  ("feature" :> Feature(category, value)) @@ ("meta_morpheme" :> meta_morpheme)

RootIg(morpheme, pos, inflection) ==
  ("root" :> ("morpheme" :> morpheme)) @@ ("pos" :> pos)
  @@ ("inflection" :> inflection)

DerivedIg(pos, derivation, inflection) ==
  ("derivation" :> derivation) @@ ("pos" :> pos)
  @@ ("inflection" :> inflection)

\* message.ClearField(field) and the assignment of a field.
ClearField(message, field) ==
  [f \in DOMAIN message \ {field} |-> message[f]]

With(message, field, value) == (field :> value) @@ message

EvIg == RootIg(<<"e", "v">>, <<"N", "N">>, <<>>)

WithAffix == Affix(<<"D", "e", "r", "i", "v", "a", "t", "i", "o", "n">>, <<"W", "i", "t", "h">>, <<"l", "H">>)

\* Affixes that are not well-formed.
IllformedAffixes ==
  {Unset, "feature" :> Unset, "meta_morpheme" :> <<"D", "A">>,
   "feature" :> ("category" :> <<"C", "a", "s", "e">>),
   "feature" :> ("value" :> <<"L", "o", "c">>),
   "feature" :> Feature(<<>>, <<"L", "o", "c">>),
   "feature" :> Feature(<<"C", "a", "s", "e">>, <<>>)}

\* First inflectional groups: well-formed ones, and ones with one or with
\* several violations.
FirstIgs ==
  {EvIg, RootIg(<<"A", "l", "i">>, <<"N", "N", "P">>, <<>>), RootIg(<<"A", "l", "i">>, <<"N", "N">>, <<>>),
   With(RootIg(<<"e", "v">>, <<"N", "N">>, <<Affix(<<"C", "a", "s", "e">>, <<"L", "o", "c">>, <<"D", "A">>)>>), "proper", FALSE),
   With(EvIg, "proper", TRUE),
   RootIg(<<"e", "v">>, <<"N", "N">>, <<"feature" :> Feature(<<"P", "e", "r", "s", "o", "n", "N", "u", "m", "b", "e", "r">>, <<"A", "3", "s", "g">>)>>),
   RootIg(<<"e", "v">>, <<"N", "N">>, <<Affix(<<"P", "e", "r", "s", "o", "n", "N", "u", "m", "b", "e", "r">>, <<"A", "3", "s", "g">>, <<>>)>>),
   With(EvIg, "derivation", WithAffix),
   ClearField(EvIg, "pos"), With(EvIg, "pos", <<>>), ClearField(EvIg, "root"),
   With(EvIg, "root", Unset), With(EvIg, "root", "morpheme" :> <<>>),
   ClearField(ClearField(EvIg, "pos"), "root"),
   RootIg(<<>>, <<"N", "N">>, <<Unset>>),
   RootIg(<<"e", "v">>, <<"N", "N">>, <<Affix(<<"C", "a", "s", "e">>, <<"L", "o", "c">>, <<"D", "A">>), Unset>>),
   RootIg(<<"e", "v">>, <<"N", "N">>, <<"feature" :> Unset, Unset>>)}
  \cup {RootIg(<<"e", "v">>, <<"N", "N">>, <<affix>>) : affix \in IllformedAffixes}

\* Later inflectional groups.
LaterIgs ==
  {DerivedIg(<<"J", "J">>, WithAffix, <<>>),
   With(DerivedIg(<<"J", "J">>, WithAffix, <<>>), "root", "morpheme" :> <<"e", "v">>),
   ClearField(DerivedIg(<<"J", "J">>, WithAffix, <<>>), "derivation"),
   ClearField(DerivedIg(<<"J", "J">>, WithAffix, <<>>), "pos"),
   ClearField(ClearField(DerivedIg(<<"J", "J">>, WithAffix, <<>>), "pos"),
              "derivation"),
   DerivedIg(<<"J", "J">>, "feature" :> Feature(<<"D", "e", "r", "i", "v", "a", "t", "i", "o", "n">>, <<"W", "i", "t", "h">>), <<>>),
   DerivedIg(<<"J", "J">>, Affix(<<"D", "e", "r", "i", "v", "a", "t", "i", "o", "n">>, <<"W", "i", "t", "h">>, <<>>), <<>>),
   DerivedIg(<<"J", "J">>, WithAffix, <<Unset>>)}
  \cup {DerivedIg(<<"J", "J">>, affix, <<>>) : affix \in IllformedAffixes}

\* The analyses given to validate, pretty_print and generate.
Analyses ==
  {[ig |-> <<>>]}
  \cup {[ig |-> <<first>>] : first \in FirstIgs}
  \cup {[ig |-> <<first, later>>] :
          first \in {EvIg, ClearField(EvIg, "pos"), RootIg(<<"e", "v">>, <<"N", "N">>, <<Unset>>)},
          later \in LaterIgs}

\* The calls of the process, each after the first on the result of the
\* call before it; MaxChain bounds their number.
MaxChain == 3

LibraryCall(name, argument, result) ==
  [name |-> name, argument |-> argument, result |-> result]

LastCall == log[Len(log)]

\* The results of the last call, when it is one of the named functions and
\* has returned.
LastReturned(names) ==
  IF /\ log # <<>>
     /\ Len(log) < MaxChain
     /\ LastCall.name \in names
     /\ LastCall.result.error = NoError
    THEN {LastCall.result.value}
    ELSE {}

\* The surface forms a call may take: any at the start, later the one
\* generate.surface_form returned.
SurfaceFormsToAnalyze ==
  IF log = <<>> THEN Words ELSE LastReturned({"generate"})

\* The human-readable analyses a call may take: any at the start, later
\* one of those analyze.surface_form returned or the one
\* pretty_print.analysis returned.
HumanReadablesToDecompose ==
  IF log = <<>> THEN HumanReadables
  ELSE LastReturned({"pretty_print"})
       \cup UNION {Range(analyses) : analyses \in LastReturned({"analyze"})}

\* The analyses a call may take: any at the start, later the one
\* decompose.human_readable_analysis returned.
AnalysesToUse ==
  IF log = <<>> THEN Analyses ELSE LastReturned({"decompose"})

InitLibrary ==
  /\ pc = "library"
  /\ ANALYZER \in AnalyzerFsts
  /\ _MODEL = ANALYZER
  /\ log = <<>>
  /\ ValidatorIdle
  /\ ParserIdle
  /\ CompilerIdle
  /\ WalkIdle

\* analyze.surface_form(surface_form, use_proper_feature)
AnalyzeSurfaceForm ==
  \E surface_form \in SurfaceFormsToAnalyze, use_proper_feature \in BOOLEAN :
    /\ log' = Append(log,
                     LibraryCall("analyze",
                                 [surface_form |-> surface_form,
                                  use_proper_feature |-> use_proper_feature],
                                 Returned(analyze_surface_form(
                                            _MODEL, surface_form,
                                            use_proper_feature))))
    /\ UNCHANGED <<ANALYZER, _MODEL>>
    /\ UNCHANGED <<pc, validator_vars, parser_vars, compiler_vars, walk_vars>>

\* decompose.human_readable_analysis(human_readable)
DecomposeHumanReadable ==
  \E human_readable \in HumanReadablesToDecompose :
    /\ log' = Append(log,
                     LibraryCall("decompose", human_readable,
                                 human_readable_analysis(human_readable)))
    /\ UNCHANGED <<ANALYZER, _MODEL>>
    /\ UNCHANGED <<pc, validator_vars, parser_vars, compiler_vars, walk_vars>>

\* validate.analysis(analysis)
ValidateAnalysis ==
  \E analysis \in AnalysesToUse :
    /\ log' = Append(log,
                     LibraryCall("validate", analysis,
                                 IF validate_analysis(analysis) = NoError
                                   THEN Returned(<<>>)
                                   ELSE Raised(validate_analysis(analysis))))
    /\ UNCHANGED <<ANALYZER, _MODEL>>
    /\ UNCHANGED <<pc, validator_vars, parser_vars, compiler_vars, walk_vars>>

\* pretty_print.analysis(analysis)
PrettyPrintAnalysis ==
  \E analysis \in AnalysesToUse :
    /\ log' = Append(log,
                     LibraryCall("pretty_print", analysis,
                                 Returned(pretty_print_analysis(analysis))))
    /\ UNCHANGED <<ANALYZER, _MODEL>>
    /\ UNCHANGED <<pc, validator_vars, parser_vars, compiler_vars, walk_vars>>

\* generate.surface_form(analysis)
GenerateSurfaceForm ==
  \E analysis \in AnalysesToUse :
    \E outcome \in generate_surface_form(ANALYZER, analysis) :
      /\ ANALYZER' = outcome[1]
      /\ log' = Append(log, LibraryCall("generate", analysis, outcome[2]))
      /\ UNCHANGED _MODEL
      /\ UNCHANGED <<pc, validator_vars, parser_vars, compiler_vars, walk_vars>>

NextLibrary ==
  \/ AnalyzeSurfaceForm
  \/ DecomposeHumanReadable
  \/ ValidateAnalysis
  \/ PrettyPrintAnalysis
  \/ GenerateSurfaceForm

SpecLibrary == InitLibrary /\ [][NextLibrary]_vars

LibraryTypeOK == Len(log) <= MaxChain /\ _MODEL \in AnalyzerFsts

\* ------------------------------------------------------------------------
\* validate.analysis
\* ------------------------------------------------------------------------

\* The calls of the named function that the process has made.
CallsOf(name) == {k \in DOMAIN log : log[k].name = name}

\* The field is set and is not the empty string.
PresentNonEmpty(message, field) ==
  field \in DOMAIN message /\ message[field] # <<>>

WellFormedAffix(affix) ==
  /\ "feature" \in DOMAIN affix
  /\ PresentNonEmpty(affix.feature, "category")
  /\ PresentNonEmpty(affix.feature, "value")

\* k is the index of the group, from 1.
WellFormedIg(ig, k) ==
  /\ PresentNonEmpty(ig, "pos")
  /\ k = 1 => "root" \in DOMAIN ig /\ PresentNonEmpty(ig.root, "morpheme")
  /\ k > 1 => /\ "derivation" \in DOMAIN ig
              /\ PresentNonEmpty(ig.derivation, "meta_morpheme")
              /\ WellFormedAffix(ig.derivation)
  /\ \A j \in DOMAIN ig.inflection : WellFormedAffix(ig.inflection[j])

WellFormed(analysis) ==
  /\ analysis.ig # <<>>
  /\ \A k \in DOMAIN analysis.ig : WellFormedIg(analysis.ig[k], k)

\* The violation of a field that has to be set and not empty, if any.
FieldViolations(message, field, missing, empty, fields) ==
  IF field \notin DOMAIN message THEN <<Error(missing, fields)>>
  ELSE IF message[field] = <<>> THEN <<Error(empty, fields)>>
  ELSE <<>>

\* The violations of an affix: of its feature, then of its meta-morpheme.
AffixViolations(affix, derivational) ==
  (IF "feature" \notin DOMAIN affix
     THEN <<Error("Affix is missing feature", <<>>)>>
     ELSE FieldViolations(affix.feature, "category",
                          "Feature is missing category",
                          "Feature category is empty", <<>>)
          \o FieldViolations(affix.feature, "value",
                             "Feature is missing value",
                             "Feature value is empty", <<>>))
  \o (IF derivational
        THEN FieldViolations(affix, "meta_morpheme",
                             "Derivational affix is missing meta-morpheme",
                             "Derivational affix meta-morpheme is empty",
                             <<>>)
        ELSE <<>>)

\* The violations of the k-th group: of its part-of-speech tag, then of its
\* root or derivation, then of its inflections in their order.
IgViolations(ig, k) ==
  FieldViolations(ig, "pos",
                  "Inflectional group is missing part-of-speech tag",
                  "Inflectional group part-of-speech tag is empty", <<k>>)
  \o (IF k = 1
        THEN IF "root" \notin DOMAIN ig
               THEN <<Error("Inflectional group is missing root", <<k>>)>>
               ELSE FieldViolations(ig.root, "morpheme",
                                    "Root is missing morpheme",
                                    "Root morpheme is empty", <<>>)
        ELSE IF "derivation" \notin DOMAIN ig
               THEN <<Error("Inflectional group is missing derivational affix",
                            <<k>>)>>
               ELSE AffixViolations(ig.derivation, TRUE))
  \o Flatten([j \in DOMAIN ig.inflection |->
                AffixViolations(ig.inflection[j], FALSE)])

\* The violations of an analysis, its groups in their order.
Violations(analysis) ==
  IF analysis.ig = <<>>
    THEN <<Error("Analysis is missing inflectional groups", <<>>)>>
    ELSE Flatten([k \in DOMAIN analysis.ig |->
                    IgViolations(analysis.ig[k], k)])

\* C17: validate.analysis accepts an analysis if and only if it has an
\* inflectional group, every group has a non-empty part-of-speech tag, the
\* first group a root with a non-empty morpheme, every later group a
\* derivation with a non-empty meta-morpheme, and every derivation and
\* inflection a feature with non-empty category and value; otherwise it
\* raises the error of the first violation, the groups visited in order
\* and each by its tag, its root or derivation and its inflections, with
\* the index of the group from 1 in the messages about a group.
C17_ValidateAcceptsWellFormedOnly ==
  \A k \in CallsOf("validate") :
    /\ log[k].result = Returned(<<>>) <=> WellFormed(log[k].argument)
    /\ ~WellFormed(log[k].argument)
         => log[k].result = Raised(Head(Violations(log[k].argument)))

\* An analysis whose second group lacks both its tag and its derivation was
\* validated, and the error is the one of the tag of group 2.
C17_Witness ==
  /\ Len(log) = 1
  /\ log[1].name = "validate"
  /\ Len(log[1].argument.ig) = 2
  /\ WellFormedIg(log[1].argument.ig[1], 1)
  /\ Len(Violations(log[1].argument)) > 1
  /\ log[1].result.error
       = Error("Inflectional group is missing part-of-speech tag", <<2>>)

\* ------------------------------------------------------------------------
\* decompose.human_readable_analysis
\* ------------------------------------------------------------------------

\* The matches of _IG_REGEX cover the string from end to end: the first
\* begins the string, each later one begins where the one before it ends,
\* and the last ends the string.
CoveredBy(human_readable, igs) ==
  /\ igs # <<>>
  /\ igs[1].start = 1
  /\ \A k \in 2..Len(igs) : igs[k].start = MatchEnd(igs[k - 1])
  /\ MatchEnd(igs[Len(igs)]) = Len(human_readable) + 1

\* The first match has a root and its tag, each later one a derivation and
\* its tag.
GroupsOfShape(human_readable, igs) ==
  /\ IgGroups(human_readable, igs[1]).root # <<>>
  /\ IgGroups(human_readable, igs[1]).root_pos # <<>>
  /\ \A k \in 2..Len(igs) :
       /\ IgGroups(human_readable, igs[k]).derivation # <<>>
       /\ IgGroups(human_readable, igs[k]).derivation_pos # <<>>

Decomposable(human_readable) ==
  /\ CoveredBy(human_readable, FindIter(_IG_REGEX, human_readable, 1))
  /\ GroupsOfShape(human_readable, FindIter(_IG_REGEX, human_readable, 1))

IllformedHumanReadableAnalysisErrors ==
  {Error("Human-readable analysis is empty", <<>>),
   Error("Human-readable analysis is ill-formed", <<>>)}

\* C16: decompose.human_readable_analysis raises
\* IllformedHumanReadableAnalysisError for every string that consecutive
\* matches of inflectional groups do not cover from end to end (text before
\* the first group, between two groups or after the last one, and the empty
\* string), and for one whose first group has no root or root tag or whose
\* later group has no derivation or derivation tag.
C16_UncoveredInputIsRejected ==
  \A k \in CallsOf("decompose") :
    ~Decomposable(log[k].argument)
      => log[k].result.error \in IllformedHumanReadableAnalysisErrors

\* A string with text before its only inflectional group was decomposed,
\* and an analysis was returned.
C16_Witness ==
  /\ Len(log) = 1
  /\ log[1].name = "decompose"
  /\ log[1].argument = <<"x", "x", "(", "e", "v", "[", "N", "N", "]", ")">>
  /\ log[1].result = Returned([ig |-> <<RootIg(<<"e", "v">>, <<"N", "N">>, <<>>)>>])

\* ------------------------------------------------------------------------
\* pretty_print.analysis and decompose.human_readable_analysis
\* ------------------------------------------------------------------------

\* generate.surface_form returns a surface form for the analysis, over one
\* of the analyzers.
SurfaceExists(analysis) ==
  \E analyzer \in AnalyzerFsts :
    \E outcome \in generate_surface_form(analyzer, analysis) :
      outcome[2].error = NoError /\ outcome[2].value # <<>>

\* The calls of decompose.human_readable_analysis on the string that the
\* call before them, of pretty_print.analysis, returned.
DecomposedAfterPrettyPrint ==
  {k \in CallsOf("decompose") : k > 1 /\ log[k - 1].name = "pretty_print"}

\* C14: for every analysis that validate.analysis accepts and that has a
\* surface form, decomposing its pretty-printed form returns an analysis
\* equal to it, the presence of its fields included.
C14_DecomposeInvertsPrettyPrint ==
  \A k \in DecomposedAfterPrettyPrint :
    (/\ validate_analysis(log[k - 1].argument) = NoError
     /\ SurfaceExists(log[k - 1].argument))
      => log[k].result = Returned(log[k - 1].argument)

\* The analysis of "ev" whose null person suffix has its meta-morpheme set
\* to the empty string was pretty-printed and decomposed, and the analysis
\* returned has no meta-morpheme.
C14_Witness ==
  /\ Len(log) = 2
  /\ log[1].name = "pretty_print"
  /\ log[1].argument
       = [ig |-> <<RootIg(<<"e", "v">>, <<"N", "N">>,
                          <<Affix(<<"P", "e", "r", "s", "o", "n", "N", "u", "m", "b", "e", "r">>, <<"A", "3", "s", "g">>, <<>>)>>)>>]
  /\ log[1].result.value = <<"(", "e", "v", "[", "N", "N", "]", "+", "[", "P", "e", "r", "s", "o", "n", "N", "u", "m", "b", "e", "r", "=", "A", "3", "s", "g", "]", ")">>
  /\ log[2].name = "decompose"
  /\ log[2].result
       = Returned([ig |-> <<RootIg(<<"e", "v">>, <<"N", "N">>,
                                   <<"feature" :> Feature(<<"P", "e", "r", "s", "o", "n", "N", "u", "m", "b", "e", "r">>,
                                                          <<"A", "3", "s", "g">>)>>)>>])
  /\ SurfaceExists(log[1].argument)

\* ------------------------------------------------------------------------
\* analyze.surface_form
\* ------------------------------------------------------------------------

\* The arcs of a state of the analyzer that a path may take when the bytes
\* are still to be read: those without input and those that read the first
\* byte.
ArcsOver(analyzer, state, bytes) ==
  {edge \in Range(analyzer.arcs[state]) :
     edge.ilabel = 0 \/ (bytes # <<>> /\ edge.ilabel = Head(bytes))}

\* The strings of output labels of the paths of the analyzer that lead from
\* the state to a final state and read the bytes: the accepting paths of
\* the composition of the chain of the bytes with the analyzer.
RECURSIVE AcceptingOutputs(_, _, _, _)
AcceptingOutputs(analyzer, state, bytes, symbols) ==
  (IF bytes = <<>> /\ state \in analyzer.final THEN {symbols} ELSE {})
  \cup UNION {AcceptingOutputs(
                analyzer, edge.nextstate,
                IF edge.ilabel = 0 THEN bytes ELSE Tail(bytes),
                IF edge.olabel = 0 THEN symbols
                ELSE symbols \o analyzer.symbols[edge.olabel]) :
                edge \in ArcsOver(analyzer, state, bytes)}

\* The analyses expected of a call: the output strings of the accepting
\* paths, without their proper feature when the call asks so.
ExpectedAnalyses(analyzer, argument) ==
  IF argument.use_proper_feature
    THEN AcceptingOutputs(analyzer, analyzer.start,
                          Utf8Encode(argument.surface_form), <<>>)
    ELSE {Removed(Removed(hr, <<"+", "[", "P", "r", "o", "p", "e", "r", "=", "F", "a", "l", "s", "e", "]">>), <<"+", "[", "P", "r", "o", "p", "e", "r", "=", "T", "r", "u", "e", "]">>) :
            hr \in AcceptingOutputs(analyzer, analyzer.start,
                                    Utf8Encode(argument.surface_form), <<>>)}

Ascending(strings) ==
  \A i, j \in DOMAIN strings : i < j => PyLess(strings[i], strings[j])

\* C13: analyze.surface_form returns for every word a list in ascending
\* order and without duplicates, whose elements are exactly the strings of
\* output labels of the accepting paths of the composition of the chain of
\* the word's bytes with the analyzer (without their proper feature when
\* the call asks so), and the empty list when the composition has no path
\* to an accept state.
C13_AnalysesAreTheAcceptingPaths ==
  \A k \in CallsOf("analyze") :
    /\ log[k].result.error = NoError
    /\ Ascending(log[k].result.value)
    /\ Range(log[k].result.value) = ExpectedAnalyses(_MODEL, log[k].argument)
    /\ ExpectedAnalyses(_MODEL, log[k].argument) = {}
         => log[k].result.value = <<>>

\* "ev" was analyzed, and its two analyses were returned in their order.
C13_Witness ==
  /\ Len(log) = 1
  /\ log[1].name = "analyze"
  /\ log[1].argument
       = [surface_form |-> <<"e", "v">>, use_proper_feature |-> TRUE]
  /\ log[1].result.value
       = <<<<"(", "e", "v", "[", "N", "N", "]", ")", "+", "[", "P", "r", "o", "p", "e", "r", "=", "F", "a", "l", "s", "e", "]">>,
           <<"(", "e", "v", "[", "N", "N", "]", "+", "[", "P", "e", "r", "s", "o", "n", "N", "u", "m", "b", "e", "r", "=", "A", "3", "s", "g", "]", ")", "+", "[", "P", "r", "o", "p", "e", "r", "=", "F", "a", "l", "s", "e", "]">>>>

\* ------------------------------------------------------------------------
\* generate.surface_form
\* ------------------------------------------------------------------------

\* The calls of generate.surface_form on the analysis that decompose made
\* of one of the analyses analyze.surface_form returned for a word.
GeneratedAfterAnalyze ==
  {k \in CallsOf("generate") :
     /\ k > 2
     /\ log[k - 1].name = "decompose"
     /\ log[k - 2].name = "analyze"}

\* C15: for every word and every analysis that analyze.surface_form returns
\* for it, generate.surface_form of the decomposed analysis is the word in
\* Turkish lower case, over any analyzer, also when several surface forms
\* have that analysis.
C15_GenerateInvertsAnalyze ==
  \A k \in GeneratedAfterAnalyze :
    log[k].result
      = Returned(generate__lower(log[k - 2].argument.surface_form))

\* "evde" was analyzed, its analysis decomposed and "evda" generated from
\* it.
C15_Witness ==
  /\ Len(log) = 3
  /\ log[1].name = "analyze"
  /\ log[1].argument.surface_form = <<"e", "v", "d", "e">>
  /\ log[2].name = "decompose"
  /\ log[2].argument = <<"(", "e", "v", "[", "N", "N", "]", "+", "D", "A", "[", "C", "a", "s", "e", "=", "L", "o", "c", "]", ")", "+", "[", "P", "r", "o", "p", "e", "r", "=", "F", "a", "l", "s", "e", "]">>
  /\ log[3].name = "generate"
  /\ log[3].result = Returned(<<"e", "v", "d", "a">>)

\* The analysis with the proper feature of its last group set, when it is
\* not, to whether the tag of that group is NNP.
ProperOfLast(analysis) ==
  IF "proper" \in DOMAIN analysis.ig[Len(analysis.ig)]
    THEN analysis.ig[Len(analysis.ig)].proper
    ELSE "pos" \in DOMAIN analysis.ig[Len(analysis.ig)]
         /\ analysis.ig[Len(analysis.ig)].pos = <<"N", "N", "P">>

WithProperOfLast(analysis) ==
  [ig |-> [k \in DOMAIN analysis.ig |->
             IF k = Len(analysis.ig)
               THEN With(ClearField(analysis.ig[k], "proper"), "proper",
                         ProperOfLast(analysis))
               ELSE analysis.ig[k]]]

\* string.endswith(suffix)
EndsWith(string, suffix) ==
  /\ Len(suffix) <= Len(string)
  /\ SubSeq(string, Len(string) - Len(suffix) + 1, Len(string)) = suffix

\* The outcomes of generate.surface_form on the analysis over the analyzer
\* as it was before the call: the analyzer is the loaded one with its arcs
\* in some order.
OutcomesOver(analyzer, analysis) ==
  {outcome[2] : outcome \in generate_surface_form(analyzer, analysis)}

\* C18: generate.surface_form treats an analysis whose last inflectional
\* group has no proper feature as the same analysis with that feature set
\* to whether the tag of the last group is NNP, and keeps a proper feature
\* that is set: what it returns is what it may return for the analysis with
\* the feature set, and the pretty-printed string it takes the symbols of
\* is that of the analysis with the feature set, which ends with
\* ")+[Proper=True]" or ")+[Proper=False]".
C18_MissingProperIsAdded ==
  \A k \in CallsOf("generate") :
    log[k].argument.ig # <<>>
      => /\ log[k].result
              \in OutcomesOver(_MODEL, WithProperOfLast(log[k].argument))
         /\ pretty_print_analysis(_add_proper(log[k].argument))
              = pretty_print_analysis(WithProperOfLast(log[k].argument))
         /\ \/ EndsWith(pretty_print_analysis(_add_proper(log[k].argument)),
                        <<")", "+", "[", "P", "r", "o", "p", "e", "r", "=", "T", "r", "u", "e", "]">>)
            \/ EndsWith(pretty_print_analysis(_add_proper(log[k].argument)),
                        <<")", "+", "[", "P", "r", "o", "p", "e", "r", "=", "F", "a", "l", "s", "e", "]">>)

\* The analysis "(Ali[NNP])", without proper feature, was given to
\* generate.surface_form, which returned "ali" over an analyzer that has
\* only "(Ali[NNP])+[Proper=True]" and "(Ali[NN])+[Proper=False]".
C18_Witness ==
  /\ Len(log) = 1
  /\ log[1].name = "generate"
  /\ log[1].argument = [ig |-> <<RootIg(<<"A", "l", "i">>, <<"N", "N", "P">>, <<>>)>>]
  /\ log[1].result = Returned(<<"a", "l", "i">>)
  /\ _MODEL = AliAnalyzer

\* ------------------------------------------------------------------------
\* The loaded analyzer
\* ------------------------------------------------------------------------

\* C19: the loaded analyzer FST is immutable: no call of
\* analyze.surface_form or generate.surface_form changes the analyzer FST
\* of fst.py or the one of analyze.py, neither its states nor its arcs nor
\* the order of the arcs of a state.
C19_AnalyzerIsImmutable ==
  [][ANALYZER' = ANALYZER /\ _MODEL' = _MODEL]_vars

\* generate.surface_form was called, and the arcs of state 2 of the
\* analyzer of fst.py are no longer in the order in which they were loaded,
\* which the analyzer of analyze.py still has.
C19_Witness ==
  /\ Len(log) = 1
  /\ log[1].name = "generate"
  /\ _MODEL = EvAnalyzer
  /\ DOMAIN ANALYZER.arcs = DOMAIN _MODEL.arcs
  /\ Range(ANALYZER.arcs[2]) = Range(_MODEL.arcs[2])
  /\ ANALYZER.arcs[2] # _MODEL.arcs[2]
  /\ ANALYZER.arcs[2][1].olabel = 257

\* ------------------------------------------------------------------------
\* Order of the merged rules after _remove_duplicate_rules
\* ------------------------------------------------------------------------

\* The last position a rule with this key has in the list.
LastOccurrence(rules, key) ==
  CHOOSE i \in DOMAIN rules :
    /\ KeyOf(rules[i]) = key
    /\ \A j \in (i + 1)..Len(rules) : KeyOf(rules[j]) # key

\* C21: the rules _remove_duplicate_rules leaves are in the relative order
\* of their last occurrences in the list it was given: a rule that occurs
\* again after other rules is placed after those rules.
C21_SurvivorsInOrderOfLastOccurrence ==
  (pc \in {"write_symbols", "write_fst", "yield_arcs", "done"}) =>
    LET before == lexicon \o morphotactics IN
    \A i, j \in DOMAIN merged :
      i < j => LastOccurrence(before, KeyOf(merged[i]))
                 < LastOccurrence(before, KeyOf(merged[j]))

\* A rule occurs twice in the list, with another rule between the two
\* occurrences, and the duplicates were removed.
C21_Witness ==
  /\ pc = "write_symbols"
  /\ LET before == lexicon \o morphotactics IN
     \E i, j, k \in DOMAIN before :
       /\ i < k /\ k < j
       /\ KeyOf(before[i]) = KeyOf(before[j])
       /\ KeyOf(before[k]) # KeyOf(before[i])
  /\ Len(merged) < Len(lexicon) + Len(morphotactics)

\* ------------------------------------------------------------------------
\* Formatting of a root under the 'capitals' policy
\* ------------------------------------------------------------------------

\* The capitalization the docstring of _capitalize describes: a string
\* initial "i" becomes the dotted capital, every "I" becomes the dotless
\* small letter, and the first letter is capitalized.
TurkishCapitalized(string) ==
  PyCapitalize(PyReplace(
    IF PyStartsWith(string, <<"i">>) THEN <<"I.">> \o Tail(string) ELSE string,
    "I", "i~"))

\* C22: under a tag whose formatting is 'capitals', a root that begins with
\* the small letter "i" is normalized to the root with a leading dotted
\* capital, its other "I" dotless and small ('istanbul' becomes
\* 'I.stanbul' with the dotted capital).
C22_InitialSmallIBecomesDottedCapital ==
  (pc = "cross_classify") =>
    \A k \in DOMAIN parse_input :
      LET e == parse_input[k] IN
      (FORMATTING[PyUpper(e[<<"t", "a", "g">>])] = "capitals" /\ PyStartsWith(e[<<"r", "o", "o", "t">>], <<"i">>)) =>
        /\ entries[k][<<"r", "o", "o", "t">>] = TurkishCapitalized(e[<<"r", "o", "o", "t">>])
        /\ Head(entries[k][<<"r", "o", "o", "t">>]) = "I."

\* The proper noun 'istanbul' is normalized.
C22_Witness ==
  /\ pc = "cross_classify"
  /\ \E k \in DOMAIN parse_input :
       /\ parse_input[k][<<"t", "a", "g">>] = <<"n", "n", "p">>
       /\ parse_input[k][<<"r", "o", "o", "t">>] = <<"i", "s", "t", "a", "n", "b", "u", "l">>
       /\ entries[k][<<"r", "o", "o", "t">>] = <<"I", "s", "t", "a", "n", "b", "u", "l">>

\* ------------------------------------------------------------------------
\* fst.extract_parses and analyze._extract_analyses as the generators they
\* are: one frame for each nested call, one step for each yield, each
\* recursive call and each return
\* ------------------------------------------------------------------------

\* the frames a walk may nest
MaxDepth == 7

\* A frame: the state the call is at, the symbols gathered on the way to it
\* (symbol_indices of extract_parses, symbols of _extract_analyses), and
\* how many of the arcs of the state its loop has taken.
Frame(state_index, symbols) ==
  [state_index |-> state_index, symbols |-> symbols, taken |-> 0]

\* arcs = list(fst.arcs(state_index))
ArcsOf(fst, frame) == fst.arcs[frame.state_index]

\* What the call yields at a state without arcs:
\* bytes(symbol_indices).decode("utf-8"),
\* "".join(map(symbol_table.find, symbol_indices)) or "".join(symbols).
ParseOf(fst, generator_name, type, symbols) ==
  CASE generator_name = "_extract_analyses" -> Flatten(symbols)
    [] type = "ilabel" -> Utf8Decode(symbols)
    [] OTHER -> Flatten([k \in DOMAIN symbols |->
                           FindSymbol(fst.symbols, symbols[k])])

\* new_symbol_indices of extract_parses, new_symbols of _extract_analyses.
NewSymbols(fst, generator_name, type, symbols, edge) ==
  IF generator_name = "_extract_analyses"
    THEN IF FindSymbol(fst.symbols, edge.olabel) # <<"<", "e", "p", "s", ">">>
           THEN Append(symbols, FindSymbol(fst.symbols, edge.olabel))
           ELSE symbols
    ELSE IF edge[type] # 0 THEN Append(symbols, edge[type]) ELSE symbols

\* The frame of a recursive call that stays at the state of its caller.
CalleeAtCallerState(fst, generator_name, type, frame, edge) ==
  Frame(frame.state_index,
        NewSymbols(fst, generator_name, type, frame.symbols, edge))

\* The frame of the recursive call made for an arc: at arc.nextstate, with
\* the new symbols.
Callee(fst, generator_name, type, frame, edge) ==
  Frame(edge.nextstate,
        NewSymbols(fst, generator_name, type, frame.symbols, edge))

\* The frames without the innermost one.
Popped(stack) == SubSeq(stack, 1, Len(stack) - 1)

\* An FST in which "ev" is accepted at state 2, which has an arc further to
\* the accept state 3.
AcceptStateWithArcs ==
  [start |-> 0,
   final |-> {2, 3},
   arcs |-> (0 :> <<Arc(101, 256, 1)>>)
            @@ (1 :> <<Arc(118, 0, 2)>>)
            @@ (2 :> <<Arc(0, 258, 3)>>)
            @@ (3 :> <<>>),
   symbols |-> AnalyzerSymbols]

\* An FST with a state that has no arcs and is not an accept state.
DeadEnd ==
  [start |-> 0,
   final |-> {2},
   arcs |-> (0 :> <<Arc(101, 256, 1), Arc(97, 263, 2)>>)
            @@ (1 :> <<>>)
            @@ (2 :> <<>>),
   symbols |-> AnalyzerSymbols]

\* An FST with a cycle through its start state.
Cyclic ==
  [start |-> 0,
   final |-> {2},
   arcs |-> (0 :> <<Arc(101, 256, 1)>>)
            @@ (1 :> <<Arc(118, 0, 0), Arc(0, 258, 2)>>)
            @@ (2 :> <<>>),
   symbols |-> AnalyzerSymbols]

\* An FST whose accept state has an arc to itself.
SelfLoop ==
  [start |-> 0,
   final |-> {1},
   arcs |-> (0 :> <<Arc(101, 256, 1)>>)
            @@ (1 :> <<Arc(0, 0, 1)>>),
   symbols |-> AnalyzerSymbols]

\* An FST with a cycle that the start state does not lead to.
CycleOffThePath ==
  [start |-> 0,
   final |-> {1},
   arcs |-> (0 :> <<Arc(101, 256, 1), Arc(97, 263, 1)>>)
            @@ (1 :> <<>>)
            @@ (2 :> <<Arc(100, 257, 3)>>)
            @@ (3 :> <<Arc(101, 0, 2), Arc(0, 258, 1)>>),
   symbols |-> AnalyzerSymbols]

\* An FST of one state.
OneState ==
  [start |-> 0, final |-> {0}, arcs |-> (0 :> <<>>),
   symbols |-> AnalyzerSymbols]

\* The FSTs walked.
WalkFsts ==
  {EvAnalyzer, AliAnalyzer, AcceptStateWithArcs, DeadEnd, Cyclic, SelfLoop,
   CycleOffThePath, OneState}

\* The generators and the label types they are called with.
Walks ==
  {<<"extract_parses", "ilabel">>, <<"extract_parses", "olabel">>,
   <<"extract_parses", "label">>, <<"_extract_analyses", "olabel">>}

InitExtract ==
  /\ pc = "walk"
  /\ walk_fst \in WalkFsts
  /\ \E walk \in Walks : generator = walk[1] /\ label_type = walk[2]
  /\ frames = <<Frame(walk_fst.start, <<>>)>>
  /\ parses = <<>>
  /\ ValidatorIdle
  /\ ParserIdle
  /\ CompilerIdle
  /\ LibraryIdle

\* if label_type not in ("ilabel", "olabel"): raise AttributeError
RaiseInvalidLabelType ==
  /\ pc = "walk"
  /\ generator = "extract_parses"
  /\ label_type \notin {"ilabel", "olabel"}
  /\ pc' = "raised"
  /\ UNCHANGED <<walk_fst, generator, label_type, frames, parses,
                 validator_vars, parser_vars, compiler_vars, library_vars>>

\* The label type the innermost call can go on with.
Walking ==
  /\ pc = "walk"
  /\ generator = "extract_parses" => label_type \in {"ilabel", "olabel"}

\* if not arcs: yield ...; the loop over no arcs ends the call.
YieldParse ==
  /\ Walking
  /\ ArcsOf(walk_fst, frames[Len(frames)]) = <<>>
  /\ parses' = Append(parses, ParseOf(walk_fst, generator, label_type,
                                      frames[Len(frames)].symbols))
  /\ frames' = Popped(frames)
  /\ pc' = IF Len(frames) = 1 THEN "extracted" ELSE "walk"
  /\ UNCHANGED <<walk_fst, generator, label_type, validator_vars,
                 parser_vars, compiler_vars, library_vars>>

\* for arc in arcs: ... yield from extract_parses(fst, arc.nextstate, ...)
FollowArc ==
  /\ Walking
  /\ Len(frames) < MaxDepth
  /\ frames[Len(frames)].taken < Len(ArcsOf(walk_fst, frames[Len(frames)]))
  /\ frames' =
       Append([frames EXCEPT ![Len(frames)].taken = @ + 1],
              Callee(walk_fst, generator, label_type, frames[Len(frames)],
                     ArcsOf(walk_fst, frames[Len(frames)])[
                       frames[Len(frames)].taken + 1]))
  /\ UNCHANGED <<pc, walk_fst, generator, label_type, parses, validator_vars,
                 parser_vars, compiler_vars, library_vars>>

\* the loop has taken every arc of the state: the call ends
ReturnFromState ==
  /\ Walking
  /\ ArcsOf(walk_fst, frames[Len(frames)]) # <<>>
  /\ frames[Len(frames)].taken = Len(ArcsOf(walk_fst, frames[Len(frames)]))
  /\ frames' = Popped(frames)
  /\ pc' = IF Len(frames) = 1 THEN "extracted" ELSE "walk"
  /\ UNCHANGED <<walk_fst, generator, label_type, parses, validator_vars,
                 parser_vars, compiler_vars, library_vars>>

NextExtract ==
  RaiseInvalidLabelType \/ YieldParse \/ FollowArc \/ ReturnFromState

SpecExtract == InitExtract /\ [][NextExtract]_vars

\* The caller takes every parse of the generator (set(...) in
\* generate.surface_form, the comprehensions of analyze.surface_form), so a
\* step that can be taken is taken.
FairSpecExtract == SpecExtract /\ WF_vars(NextExtract)

\* ------------------------------------------------------------------------
\* Properties of the path enumeration
\* ------------------------------------------------------------------------

WalkTypeOK ==
  (pc \in {"walk", "extracted", "raised"}) =>
    /\ walk_fst \in WalkFsts
    /\ <<generator, label_type>> \in Walks
    /\ Len(frames) <= MaxDepth
    /\ \A k \in DOMAIN frames :
         /\ frames[k].state_index \in DOMAIN walk_fst.arcs
         /\ frames[k].taken \in 0..Len(ArcsOf(walk_fst, frames[k]))

\* The paths of at most n arcs from a state to an accept state, each the
\* sequence of its arcs.
RECURSIVE AcceptingPaths(_, _, _)
AcceptingPaths(fst, state, n) ==
  (IF state \in fst.final THEN {<<>>} ELSE {})
  \cup (IF n = 0 THEN {}
        ELSE UNION {{<<edge>> \o path :
                       path \in AcceptingPaths(fst, edge.nextstate, n - 1)} :
                      edge \in Range(fst.arcs[state])})

\* The string of a path: its labels of the tape, the epsilons left out, as
\* the bytes of a string (input tape) or joined symbols (output tape).
StringOfPath(fst, type, path) ==
  LET labels == [k \in DOMAIN path |-> path[k][type]]
      kept == SelectSeq(labels, LAMBDA index : index # 0)
  IN IF type = "ilabel" THEN Utf8Decode(kept)
     ELSE Flatten([k \in DOMAIN kept |-> FindSymbol(fst.symbols, kept[k])])

\* How many times a sequence holds a value.
Count(sequence, value) ==
  Cardinality({k \in DOMAIN sequence : sequence[k] = value})

\* C23: when the walk is over, the strings yielded are, as a multiset, the
\* strings of the paths from the start state to an accept state: one for
\* each such path, also when the accept state has arcs of its own, and
\* none for a path that ends at a state that is not an accept state.
C23_YieldsAtEveryAcceptState ==
  (pc = "extracted") =>
    LET paths == AcceptingPaths(walk_fst, walk_fst.start, MaxDepth)
        strings == {StringOfPath(walk_fst, label_type, path) : path \in paths}
    IN /\ Range(parses) = strings
       /\ \A string \in strings :
            Count(parses, string)
              = Cardinality({path \in paths :
                               StringOfPath(walk_fst, label_type, path) = string})

\* The walk of the FST whose accept state 2 has an arc is over.
C23_Witness ==
  /\ pc = "extracted"
  /\ walk_fst = AcceptStateWithArcs
  /\ generator = "extract_parses"
  /\ label_type = "olabel"
  /\ parses = <<<<"(", "e", "v", "[", "N", "N", "]", ")", "+", "[", "P", "r", "o", "p", "e", "r", "=", "F", "a", "l", "s", "e", "]">>>>

\* ------------------------------------------------------------------------
\* analyze.surface_form with and without the proper feature
\* ------------------------------------------------------------------------

\* The analyses of the list with the two proper features deleted from each.
WithoutProperFeature(analyses) ==
  {Removed(Removed(analyses[k], <<"+", "[", "P", "r", "o", "p", "e", "r", "=", "F", "a", "l", "s", "e", "]">>), <<"+", "[", "P", "r", "o", "p", "e", "r", "=", "T", "r", "u", "e", "]">>) :
     k \in DOMAIN analyses}

\* C24: what analyze.surface_form returns for a word without the proper
\* feature is the sorted list, without duplicates, of what it returns for
\* the word with the proper feature, '+[Proper=False]' and '+[Proper=True]'
\* deleted from each element; it is empty exactly when that list is empty.
C24_WithoutProperIsWithProperStripped ==
  \A k \in CallsOf("analyze") :
    ~log[k].argument.use_proper_feature =>
      /\ log[k].result.error = NoError
      /\ log[k].result.value
           = PySorted(WithoutProperFeature(
               analyze_surface_form(_MODEL, log[k].argument.surface_form,
                                    TRUE)))
      /\ (log[k].result.value = <<>>)
           <=> (analyze_surface_form(_MODEL, log[k].argument.surface_form,
                                     TRUE) = <<>>)

\* "Ali" was analyzed without the proper feature, as a common noun and as
\* a proper noun.
C24_Witness ==
  /\ Len(log) = 1
  /\ log[1].name = "analyze"
  /\ log[1].argument
       = [surface_form |-> <<"A", "l", "i">>, use_proper_feature |-> FALSE]
  /\ log[1].result.value = <<<<"(", "A", "l", "i", "[", "N", "N", "P", "]", ")">>, <<"(", "A", "l", "i", "[", "N", "N", "]", ")">>>>

\* ------------------------------------------------------------------------
\* The symbols of the input labels of the morphotactics rules
\* ------------------------------------------------------------------------

\* C25: the symbols _symbols_of_input returns for the input label of a
\* rule of the morphotactics, a label the validator has accepted, make up
\* the label when they are joined, and the arcs emitted for the rule carry
\* them: no character of the label is missing from the arcs.
C25_InputSymbolsMakeUpTheLabel ==
  [][(pc = "yield_arcs" /\ rule_index' = rule_index + 1
        /\ merged[rule_index] \in Range(morphotactics)) =>
       LET rule == merged[rule_index]
           new == SubSeq(fst_file', Len(fst_file) + 1, Len(fst_file'))
       IN /\ _rule_input_is_valid(rule.input) = NoError
          /\ Flatten(_symbols_of_input(rule.input)) = rule.input
          /\ rule.input # EPSILON =>
               Flatten(NonEpsilon([i \in DOMAIN new |-> new[i][3]]))
                 = rule.input
    ]_vars

\* The arcs of a rule whose input label is an inflectional group boundary
\* without the closing parenthesis of the group before have been emitted.
C25_Witness ==
  /\ pc = "yield_arcs"
  /\ \E k \in 1..(rule_index - 1) :
       /\ merged[k] \in Range(morphotactics)
       /\ merged[k].input = <<"(", "[", "J", "J", "]", "-", "c", "A", "[", "D", "e", "r", "i", "v", "a", "t", "i", "o", "n", "=", "L", "y", "]">>
  /\ \E k \in DOMAIN fst_file : fst_file[k][3] = <<"-", "c", "A", "[", "D", "e", "r", "i", "v", "a", "t", "i", "o", "n", "=", "L", "y", "]">>

\* ------------------------------------------------------------------------
\* Cross-classification is one pass
\* ------------------------------------------------------------------------

\* What tells the source of a cross-classified entry, and its tag.
MadeFrom(source, tag) ==
  <<tag, _lower(source[<<"r", "o", "o", "t">>]), source[<<"m", "o", "r", "p", "h", "o", "p", "h", "o", "n", "e", "m", "i", "c", "s">>],
    source[<<"i", "s", "_", "c", "o", "m", "p", "o", "u", "n", "d">>]>>

MadeFromOfDerived(derived) ==
  [d \in DOMAIN derived |-> MadeFrom(derived[d], derived[d][<<"t", "a", "g">>])]

MadeFromOfDerivations(derivations) ==
  [d \in DOMAIN derivations |->
     MadeFrom(derivations[d].source, derivations[d].target)]

TargetsOf(normalized) ==
  Flatten([k \in DOMAIN normalized |->
             CROSS_CLASSIFY_AS[normalized[k][<<"t", "a", "g">>]]])

\* C26: cross-classification is one pass over the normalized entries (the
\* entries given and their plain duplicates): these stay at the head of the
\* list, and after them come, by source in the order of the list and by
\* target in the order CROSS_CLASSIFY_AS declares, one entry for each target
\* of each source and no entry made from a cross-classified one, so that an
\* entry of tag T makes 1 + |CROSS_CLASSIFY_AS[T]| entries.
C26_CrossClassificationIsOnePass ==
  (pc = "create_rules") =>
    /\ SubSeq(entries, 1, Len(Normalized)) = Normalized
    /\ MadeFromOfDerived(Derived) = MadeFromOfDerivations(Derivations)
    /\ Len(entries) = Len(Normalized) + Len(TargetsOf(Normalized))

\* A JJN entry has been cross-classified, with its plain duplicate: as JJ,
\* NN and NOMP, and not as PRI or RB as a JJ entry is.
C26_Witness ==
  /\ pc = "create_rules"
  /\ Len(parse_input) = 1
  /\ parse_input[1][<<"t", "a", "g">>] = <<"j", "j", "n">>
  /\ [k \in DOMAIN entries |-> entries[k][<<"t", "a", "g">>]]
       = <<<<"J", "J", "N">>, <<"J", "J", "N">>, <<"J", "J">>, <<"N", "N">>, <<"N", "O", "M", "P">>, <<"J", "J">>, <<"N", "N">>, <<"N", "O", "M", "P">>>>

\* ------------------------------------------------------------------------
\* State indices of the text FST are not reused
\* ------------------------------------------------------------------------

\* The indices of the state names.
NamedIndices(indices) == {indices[name] : name \in DOMAIN indices}

\* The lines whose arc leaves the state of the index, and those whose arc
\* enters it.
ArcsFrom(lines, index) ==
  {k \in DOMAIN lines : Len(lines[k]) = 4 /\ lines[k][1] = index}

ArcsTo(lines, index) ==
  {k \in DOMAIN lines : Len(lines[k]) = 4 /\ lines[k][2] = index}

\* Every index on the lines that is not the index of a name is entered by
\* one arc and left by one arc.
InnerStatesAreOnOneChain(lines, indices) ==
  \A index \in IndicesOn(lines) \ NamedIndices(indices) :
    /\ Cardinality(ArcsTo(lines, index)) = 1
    /\ Cardinality(ArcsFrom(lines, index)) = 1

ValidatedAfterDecompose ==
  {k \in CallsOf("validate") : k > 1 /\ log[k - 1].name = "decompose"}

\* C28: the analysis decompose.human_readable_analysis returns for a string
\* it accepts is one validate.analysis accepts: it has an inflectional
\* group, every group has a part of speech, the first group and no other
\* has a root, whose morpheme is not empty, every later group has a
\* derivation with a meta-morpheme, and every affix has a feature with a
\* category and a value.
C28_DecomposedAnalysisIsValid ==
  /\ \A k \in CallsOf("decompose") :
       log[k].result.error = NoError =>
         /\ validate_analysis(log[k].result.value) = NoError
         /\ WellFormed(log[k].result.value)
         /\ \A j \in DOMAIN log[k].result.value.ig :
              j > 1 => "root" \notin DOMAIN log[k].result.value.ig[j]
  /\ \A k \in ValidatedAfterDecompose : log[k].result.error = NoError

\* An analysis of two groups was decomposed and then validated.
C28_Witness ==
  /\ Len(log) = 2
  /\ log[1].name = "decompose"
  /\ log[1].argument = <<"(", "e", "v", "[", "N", "N", "]", ")", "(", "[", "J", "J", "]", "-", "l", "H", "[", "D", "e", "r", "i", "v", "a", "t", "i", "o", "n", "=", "W", "i", "t", "h", "]", ")">>
  /\ Len(log[1].result.value.ig) = 2
  /\ log[2].name = "validate"
  /\ log[2].result.error = NoError

\* ------------------------------------------------------------------------
\* Termination of the path enumeration
\* ------------------------------------------------------------------------

\* The states that an arc of one of the states leads to.
Successors(fst, states) ==
  UNION {{edge.nextstate : edge \in Range(fst.arcs[state])} : state \in states}

\* The states reached from the states by one arc or more.
RECURSIVE ReachedFrom(_, _, _)
ReachedFrom(fst, states, found) ==
  IF Successors(fst, states) \subseteq found THEN found
  ELSE ReachedFrom(fst, Successors(fst, states) \ found,
                   found \cup Successors(fst, states))

\* No cycle is reached from the start state.
Acyclic(fst) ==
  \A state \in {fst.start} \cup ReachedFrom(fst, {fst.start}, {}) :
    state \notin ReachedFrom(fst, {state}, {})

\* C29: on an FST in which no cycle is reached from the start state the
\* enumeration comes to its end, with finitely many parses yielded; on one
\* with such a cycle it never does, as it keeps no set of the states it has
\* visited.
C29_EnumerationEndsOnAcyclicFsts ==
  /\ (Acyclic(walk_fst) /\ label_type \in {"ilabel", "olabel"})
       => <>(pc = "extracted")
  /\ ~Acyclic(walk_fst) => [](pc # "extracted")

\* The walk of an analyzer with several paths is over, and so is the walk
\* of the FST that has a cycle its start state does not lead to.
C29_Witness ==
  /\ pc = "extracted"
  /\ walk_fst \in {EvAnalyzer, CycleOffThePath}
  /\ Len(parses) >= 2

\* ------------------------------------------------------------------------
\* The epsilon label from the validator to the compiler
\* ------------------------------------------------------------------------

\* The labels _rule_input_is_valid and _rule_output_is_valid accept as
\* epsilon.
EpsilonInAnyCase(label) == PyLower(label) = EPSILON

\* The rule definitions of the morphotactics files, in the order they are
\* read.
DefinitionsRead(files) ==
  Flatten([p \in DOMAIN files |-> Values(read_rule_definitions(files[p]))])

\* Each label of the definitions that is epsilon in some letter case is
\* EPSILON in the rule parsed from the definition.
EpsilonIsRewritten(definitions, rules) ==
  /\ Len(definitions) = Len(rules)
  /\ \A k \in DOMAIN definitions :
       /\ EpsilonInAnyCase(definitions[k][3]) => rules[k].input = EPSILON
       /\ EpsilonInAnyCase(definitions[k][4]) => rules[k].output = EPSILON

\* C30: a label of a morphotactics rule the validator accepts as epsilon,
\* "<eps>" in any letter case, is "<eps>" in the rule the parser returns;
\* the arcs the compiler emits for the rule carry it as the one symbol
\* "<eps>", never as its characters, and the complex symbols table has no
\* line for it.
C30_EpsilonIsOneSymbolEverywhere ==
  /\ []((pc \in {"merge", "write_symbols", "write_fst", "yield_arcs", "done"})
          => EpsilonIsRewritten(DefinitionsRead(morphotactics_dir),
                                morphotactics))
  /\ []((pc \in {"write_fst", "yield_arcs", "done"}) =>
          \A k \in DOMAIN symbols_file :
            ~EpsilonInAnyCase(symbols_file[k][1]))
  /\ [][(pc = "yield_arcs" /\ rule_index' = rule_index + 1
           /\ merged[rule_index] \in Range(morphotactics)) =>
          LET rule == merged[rule_index]
              new == SubSeq(fst_file', Len(fst_file) + 1, Len(fst_file'))
          IN /\ EpsilonInAnyCase(rule.input) =>
                  \A i \in DOMAIN new : new[i][3] = EPSILON
             /\ EpsilonInAnyCase(rule.output) =>
                  \A i \in DOMAIN new : new[i][4] = EPSILON
       ]_vars

\* A file with a rule whose labels are written "<EPS>" has been compiled:
\* the rule has the labels "<eps>" and its arc carries them.
C30_Witness ==
  /\ pc = "done"
  /\ \E p \in DOMAIN morphotactics_dir :
       \E k \in DOMAIN morphotactics_dir[p] :
         morphotactics_dir[p][k] = <<"j", "j", " ", "a", "c", "c", "e", "p", "t", " ", "<", "E", "P", "S", ">", " ", "<", "E", "P", "S", ">">>
  /\ \E k \in DOMAIN morphotactics :
       /\ morphotactics[k].from_state = <<"J", "J">>
       /\ morphotactics[k].input = EPSILON
       /\ morphotactics[k].output = EPSILON
  /\ \E k \in DOMAIN fst_file :
       /\ Len(fst_file[k]) = 4
       /\ fst_file[k][3] = EPSILON
       /\ fst_file[k][4] = EPSILON
====
